---------------------------- MODULE Spec2Model ----------------------------
(***************************************************************************)
(* Model of the stagnant-checker Slack utility.                            *)
(*                                                                         *)
(*   Spec       the slash-command handlers of src/slack_bot.py (/watch,    *)
(*              /unwatch, /list) over the user_data key of the store.      *)
(*              Every store read is answered; a store write may fail.      *)
(*   SpecCache  the channel resolver of src/stagnant_checker_vercel.py     *)
(*              (get_channel_id) over the channel_cache key, a wall clock  *)
(*              and the platform's paginated channel listing.              *)
(*   SpecRun    one run of run_check of src/stagnant_checker_vercel.py:    *)
(*              the stored users one by one, each channel resolved,        *)
(*              fetched and judged, one report sent per user.  A call of   *)
(*              the platform client answers, or raises SlackApiError, or   *)
(*              raises an exception of another class.                      *)
(*   SpecFile   processes that call load_json_with_lock,                   *)
(*              save_json_with_lock and atomic_json_update of              *)
(*              src/file_utils.py on the cache file, one system call at    *)
(*              a time.                                                    *)
(*   SpecStore  the three commands as served by src/slack_bot.py,          *)
(*              src/api/bot.py, src/api/index.py and src/api/slack_bot.py, *)
(*              with or without a connection, store reads and writes that  *)
(*              may fail, a stored value that may be unparsable and        *)
(*              payloads that may lack user_id.                            *)
(*   SpecStale  the resolver of SpecCache with a record of what each       *)
(*              listing showed and when.                                   *)
(*   SpecRace   two processes, each serving a /watch or a get_channel_id,  *)
(*              whose store reads and writes interleave.                   *)
(*                                                                         *)
(* A text is a sequence of one-character strings.  The handlers are        *)
(* single-threaded: one action is one whole invocation, and the next       *)
(* command is served when the handler has returned.                        *)
(***************************************************************************)
EXTENDS Integers, Sequences, FiniteSets, TLC

VARIABLES
    user_data,      \* value of the store key DATA_KEY ("user_data")
    cmd,            \* the slash command being served: name, user_id, text
    trace,          \* what the handler did, in order: ack, get, set, respond
    channel_cache,  \* value of the store key CACHE_KEY ("channel_cache")
    now,            \* datetime.now(), in hours
    platform,       \* the pages conversations_list serves
    USE_REDIS,      \* the cache is kept in Redis, or else in a file
    call,           \* the get_channel_id call being made and what it did
    run,            \* where run_check stands and what it has done so far
    r,              \* the process has a Redis connection ("r is not None")
    file,           \* the cache file CHANNEL_CACHE_FILE: is it there, its text
    procs,          \* the processes working on the file, each at its step
    observed        \* for each cached name: the ID a listing gave, and when

vars == <<user_data, cmd, trace, channel_cache, now, platform, USE_REDIS, call,
          run, r, file, procs, observed>>

watchVars == <<user_data, cmd, trace>>
cacheVars == <<channel_cache, now, platform, USE_REDIS, call>>
fileVars == <<r, file, procs, observed>>

-----------------------------------------------------------------------------
(* Bounds of the model and constants of the program *)

NumNames == 2
MaxNow == 26

MaxChannels == 50
MaxNameLen == 80
CacheExpiryHours == 24

-----------------------------------------------------------------------------
(* Characters and Python's str methods *)

UpperCase == <<"A","B","C","D","E","F","G","H","I","J","K","L","M",
               "N","O","P","Q","R","S","T","U","V","W","X","Y","Z">>
LowerCase == <<"a","b","c","d","e","f","g","h","i","j","k","l","m",
               "n","o","p","q","r","s","t","u","v","w","x","y","z">>
DigitChar == <<"0","1","2","3","4","5","6","7","8","9">>
Whitespace == {" ", "\t", "\n", "\r"}

Range(s) == {s[i] : i \in DOMAIN s}

\* the character class [a-z0-9\-_]
NameChars == Range(LowerCase) \cup Range(DigitChar) \cup {"-", "_"}

\* every character a text of the model is made of
Chars == Range(UpperCase) \cup NameChars \cup Whitespace \cup {"#", "!"}

\* str.lower(), character by character
LowerTable ==
    [c \in Chars |->
        IF \E i \in DOMAIN UpperCase : UpperCase[i] = c
        THEN LowerCase[CHOOSE i \in DOMAIN UpperCase : UpperCase[i] = c]
        ELSE c]

lower(s) == [i \in DOMAIN s |-> LowerTable[s[i]]]

RECURSIVE lstrip(_)
lstrip(s) == IF s # <<>> /\ Head(s) \in Whitespace THEN lstrip(Tail(s)) ELSE s

RECURSIVE rstrip(_)
rstrip(s) ==
    IF s # <<>> /\ s[Len(s)] \in Whitespace
    THEN rstrip(SubSeq(s, 1, Len(s) - 1))
    ELSE s

strip(s) == rstrip(lstrip(s))

startswith(s, c) == s # <<>> /\ s[1] = c

\* text[1:]
slice_from_1(s) == IF s = <<>> THEN <<>> ELSE Tail(s)

\* re.match(r"^[a-z0-9\-_]{1,80}$", s): "$" also matches before one
\* trailing newline
re_match(s) ==
    LET body == IF s # <<>> /\ s[Len(s)] = "\n"
                THEN SubSeq(s, 1, Len(s) - 1)
                ELSE s
    IN  /\ Len(body) >= 1
        /\ Len(body) <= MaxNameLen
        /\ \A i \in DOMAIN body : body[i] \in NameChars

validate_channel_name_m(channel_name) == TRUE

validate_channel_name(channel_name) ==
    IF channel_name = <<>> THEN FALSE ELSE re_match(channel_name)

-----------------------------------------------------------------------------
(* The store key user_data and the dict json.loads gives for it *)

\* a dict is the sequence of its <<key, value>> items, in insertion order
EmptyDict == <<>>

NoEntry == [channels |-> <<>>]

dict_has(d, k) == \E i \in DOMAIN d : d[i][1] = k

dict_get(d, k, default) ==
    IF dict_has(d, k)
    THEN d[CHOOSE i \in DOMAIN d : d[i][1] = k][2]
    ELSE default

dict_set(d, k, v) ==
    IF dict_has(d, k)
    THEN [i \in DOMAIN d |-> IF d[i][1] = k THEN <<k, v>> ELSE d[i]]
    ELSE Append(d, <<k, v>>)

\* what r.get returns: nothing, the text json.dumps wrote, or other bytes
Absent == [kind |-> "absent", val |-> <<>>]

json_dumps(data) == [kind |-> "json", val |-> data]

in_list(x, s) == \E i \in DOMAIN s : s[i] = x

\* list.remove(x) raises ValueError when x is not in the list
list_remove_raises(s, x) == ~in_list(x, s)

list_remove_m(s, x) == SubSeq(s, 1, Len(s) - 1)

\* list.remove(x): the first occurrence goes
list_remove(s, x) ==
    LET i == CHOOSE j \in DOMAIN s : s[j] = x /\ \A k \in 1..(j - 1) : s[k] # x
    IN  SubSeq(s, 1, i - 1) \o SubSeq(s, i + 1, Len(s))

load_data(conn, raw, getOk) ==
    IF ~conn THEN EmptyDict
    ELSE IF ~getOk THEN EmptyDict
    ELSE IF raw.kind = "absent" THEN EmptyDict
    ELSE IF raw.kind = "json" THEN raw.val
    ELSE EmptyDict

\* the value of save_data(data) and the value of the key after it
save_data(conn, raw, data, setOk) ==
    IF ~conn THEN [ok |-> FALSE, raw |-> raw]
    ELSE IF setOk THEN [ok |-> TRUE, raw |-> json_dumps(data)]
    ELSE [ok |-> FALSE, raw |-> raw]

-----------------------------------------------------------------------------
(* What a handler does, in order *)

NoMsg == [kind |-> "none", name |-> <<>>, channels |-> <<>>]

Msg(kind, name) == [kind |-> kind, name |-> name, channels |-> <<>>]

ListMsg(channels) == [kind |-> "monitoring", name |-> <<>>, channels |-> channels]

Ack == [e |-> "ack", ok |-> TRUE, msg |-> NoMsg]
Respond(m) == [e |-> "respond", ok |-> TRUE, msg |-> m]
Get(ok) == [e |-> "get", ok |-> ok, msg |-> NoMsg]
Set(ok) == [e |-> "set", ok |-> ok, msg |-> NoMsg]

\* the events of load_data() and of save_data(): none without a connection
load_events(conn, getOk) == IF conn THEN <<Get(getOk)>> ELSE <<>>
save_events(conn, setOk) == IF conn THEN <<Set(setOk)>> ELSE <<>>

-----------------------------------------------------------------------------
(* The handlers of src/slack_bot.py: the value of the key after the call   *)
(* and the handler's events                                                *)

Done(raw, events) == [raw |-> raw, trace |-> events]

already_watched_m(channel_name, channels) == FALSE

already_watched(channel_name, channels) == in_list(channel_name, channels)

at_limit_m(channels) == Len(channels) > MaxChannels

at_limit(channels) == Len(channels) >= MaxChannels

save_failed_m(saved) == FALSE

\* "if not save_data(data)"
save_failed(saved) == ~saved.ok

cmd_watch(raw, conn, user_id, text0, getOk, setOk) ==
    LET text == strip(text0)
        channel_name == lower(slice_from_1(text))
        data == load_data(conn, raw, getOk)
        user_data_ == dict_get(data, user_id, NoEntry)
        loaded == <<Ack>> \o load_events(conn, getOk)
        appended == [channels |-> Append(user_data_.channels, channel_name)]
        saved == save_data(conn, raw, dict_set(data, user_id, appended), setOk)
        stored == loaded \o save_events(conn, setOk)
    IN  IF ~startswith(text, "#")
        THEN Done(raw, <<Ack, Respond(Msg("usage_hash", <<>>))>>)
        ELSE IF channel_name = <<>>
        THEN Done(raw, <<Ack, Respond(Msg("usage", <<>>))>>)
        ELSE IF ~validate_channel_name(channel_name)
        THEN Done(raw, <<Ack, Respond(Msg("invalid", <<>>))>>)
        ELSE IF already_watched(channel_name, user_data_.channels)
        THEN Done(raw, loaded \o <<Respond(Msg("already", channel_name))>>)
        ELSE IF at_limit(user_data_.channels)
        THEN Done(raw, loaded \o <<Respond(Msg("limit", <<>>))>>)
        ELSE IF save_failed(saved)
        THEN Done(saved.raw, stored \o <<Respond(Msg("save_error", <<>>))>>)
        ELSE Done(saved.raw, stored \o <<Respond(Msg("added", channel_name))>>)

not_watched_m(channel_name, channels) == FALSE

not_watched(channel_name, channels) == ~in_list(channel_name, channels)

cmd_unwatch(raw, conn, user_id, text0, getOk, setOk) ==
    LET text == strip(text0)
        channel_name == lower(slice_from_1(text))
        data == load_data(conn, raw, getOk)
        user_data_ == dict_get(data, user_id, NoEntry)
        loaded == <<Ack>> \o load_events(conn, getOk)
        removed == [channels |-> list_remove(user_data_.channels, channel_name)]
        saved == save_data(conn, raw, dict_set(data, user_id, removed), setOk)
        stored == loaded \o save_events(conn, setOk)
    IN  IF ~startswith(text, "#")
        THEN Done(raw, <<Ack, Respond(Msg("usage_hash", <<>>))>>)
        ELSE IF channel_name = <<>>
        THEN Done(raw, <<Ack, Respond(Msg("usage", <<>>))>>)
        ELSE IF ~validate_channel_name(channel_name)
        THEN Done(raw, <<Ack, Respond(Msg("invalid", <<>>))>>)
        ELSE IF not_watched(channel_name, user_data_.channels)
        THEN Done(raw, loaded \o <<Respond(Msg("not_watched", channel_name))>>)
        ELSE IF list_remove_raises(user_data_.channels, channel_name)
        THEN Done(raw, loaded \o <<Respond(Msg("unexpected", <<>>))>>)
        ELSE IF save_failed(saved)
        THEN Done(saved.raw, stored \o <<Respond(Msg("save_error", <<>>))>>)
        ELSE Done(saved.raw, stored \o <<Respond(Msg("removed", channel_name))>>)

list_channels_m(channels) ==
    [i \in DOMAIN channels |-> channels[Len(channels) + 1 - i]]

\* the names /list prints, first to last
list_channels(channels) == channels

cmd_list(raw, conn, user_id, getOk) ==
    LET data == load_data(conn, raw, getOk)
        user_data_ == dict_get(data, user_id, NoEntry)
        channels == user_data_.channels
        loaded == <<Ack>> \o load_events(conn, getOk)
    IN  IF channels = <<>>
        THEN Done(raw, loaded \o <<Respond(Msg("empty", <<>>))>>)
        ELSE Done(raw, loaded \o <<Respond(ListMsg(list_channels(channels)))>>)

-----------------------------------------------------------------------------
(* The channel cache of src/stagnant_checker_vercel.py and                 *)
(* src/file_utils.py                                                       *)

\* a dict of channel name -> channel ID is a function on the names it holds
EmptyMap == [n \in {} |-> ""]

\* dict.get(name): the ID, or None
NoId == ""
map_get(mapping, name) == IF name \in DOMAIN mapping THEN mapping[name] ELSE NoId

\* datetime.isoformat() writes the date and the time of day,
\* datetime.fromisoformat() reads them back
None == [isnone |-> TRUE, date |-> 0, hour |-> 0]
isoformat(t) == [isnone |-> FALSE, date |-> t \div 24, hour |-> t % 24]
fromisoformat(str) == str.date * 24 + str.hour

DefaultCache == [channels |-> EmptyMap, last_updated |-> None]

\* load_cache(): the stored document, or the default when there is none
load_cache(use_redis, raw) ==
    IF raw.kind = "absent" THEN DefaultCache ELSE raw.val

\* save_cache(cache_data): the value of the key, or of the file, after it
save_cache(use_redis, raw, cache_data) == json_dumps(cache_data)

is_cache_valid_redis_m(cache_data, t) ==
    IF cache_data.last_updated.isnone THEN FALSE
    ELSE fromisoformat(cache_data.last_updated) >= t - CacheExpiryHours

is_cache_valid_redis(cache_data, t) ==
    IF cache_data.last_updated.isnone THEN FALSE
    ELSE LET last_updated == fromisoformat(cache_data.last_updated)
             expiry_time == t - CacheExpiryHours
         IN  last_updated > expiry_time

is_cache_valid(cache_data, t) ==
    IF cache_data.last_updated.isnone THEN FALSE
    ELSE LET last_updated == fromisoformat(cache_data.last_updated)
             expiry_time == t - CacheExpiryHours
         IN  last_updated > expiry_time

\* client.conversations_list(cursor=...): page 1 for cursor None (0), page
\* c for cursor c; next_cursor is empty (0) on the last page
conversations_list(pages, cursor) ==
    LET k == IF cursor = 0 THEN 1 ELSE cursor
    IN  [channels |-> pages[k],
         next_cursor |-> IF k < Len(pages) THEN k + 1 ELSE 0]

\* "for c in result['channels']: channel_mapping[c['name']] = c['id']"
RECURSIVE add_channels(_, _)
add_channels(mapping, channels) ==
    IF channels = <<>> THEN mapping
    ELSE add_channels((Head(channels).name :> Head(channels).id) @@ mapping,
                      Tail(channels))

refresh_loop_m(pages, cursor, calls, failAt, channel_mapping) ==
    IF calls = failAt
    THEN [ok |-> FALSE, mapping |-> channel_mapping, calls |-> calls]
    ELSE [ok |-> TRUE,
          mapping |-> add_channels(channel_mapping,
                                   conversations_list(pages, cursor).channels),
          calls |-> calls]

\* the listing loop of a refresh, from its calls-th call on; the failAt-th
\* call of conversations_list raises SlackApiError (0: none does)
RECURSIVE refresh_loop(_, _, _, _, _)
refresh_loop(pages, cursor, calls, failAt, channel_mapping) ==
    IF calls = failAt
    THEN [ok |-> FALSE, mapping |-> channel_mapping, calls |-> calls]
    ELSE LET result == conversations_list(pages, cursor)
             mapping == add_channels(channel_mapping, result.channels)
         IN  IF result.next_cursor = 0
             THEN [ok |-> TRUE, mapping |-> mapping, calls |-> calls]
             ELSE refresh_loop(pages, result.next_cursor, calls + 1, failAt, mapping)

refresh_cache_redis_p(raw, t, pages, failAt) ==
    LET listed == refresh_loop(pages, 0, 1, failAt, EmptyMap)
        cache_data == [channels |-> listed.mapping,
                       last_updated |-> isoformat(t)]
    IN  [ok |-> listed.ok,
         mapping |-> IF listed.ok THEN listed.mapping ELSE EmptyMap,
         raw |-> save_cache(TRUE, raw, cache_data),
         calls |-> listed.calls, writes |-> 1]

refresh_cache_redis_n(raw, t, pages, failAt) ==
    LET listed == refresh_loop(pages, 0, 1, failAt, EmptyMap)
    IN  [ok |-> listed.ok,
         mapping |-> IF listed.ok THEN listed.mapping ELSE EmptyMap,
         raw |-> raw, calls |-> listed.calls, writes |-> 0]

refresh_cache_redis_m(raw, t, pages, failAt) ==
    LET listed == refresh_loop(pages, 0, 1, failAt, EmptyMap)
        cache_data == [channels |-> listed.mapping @@ load_cache(TRUE, raw).channels,
                       last_updated |-> isoformat(t)]
    IN  IF ~listed.ok
        THEN [ok |-> FALSE, mapping |-> EmptyMap, raw |-> raw,
              calls |-> listed.calls, writes |-> 0]
        ELSE [ok |-> TRUE, mapping |-> listed.mapping,
              raw |-> save_cache(TRUE, raw, cache_data),
              calls |-> listed.calls, writes |-> 1]

\* refresh_cache_redis(): the mapping it returns (ok: not None), the value
\* of the key after it, and its calls of conversations_list and of r.set
refresh_cache_redis(raw, t, pages, failAt) ==
    LET listed == refresh_loop(pages, 0, 1, failAt, EmptyMap)
        cache_data == [channels |-> listed.mapping,
                       last_updated |-> isoformat(t)]
    IN  IF ~listed.ok
        THEN [ok |-> FALSE, mapping |-> EmptyMap, raw |-> raw,
              calls |-> listed.calls, writes |-> 0]
        ELSE [ok |-> TRUE, mapping |-> listed.mapping,
              raw |-> save_cache(TRUE, raw, cache_data),
              calls |-> listed.calls, writes |-> 1]

refresh_full_cache(raw, t, pages, failAt) ==
    LET listed == refresh_loop(pages, 0, 1, failAt, EmptyMap)
        cache_data == [channels |-> listed.mapping,
                       last_updated |-> isoformat(t)]
    IN  IF ~listed.ok
        THEN [ok |-> FALSE, mapping |-> EmptyMap, raw |-> raw,
              calls |-> listed.calls, writes |-> 0]
        ELSE [ok |-> TRUE, mapping |-> listed.mapping,
              raw |-> save_cache(FALSE, raw, cache_data),
              calls |-> listed.calls, writes |-> 1]

\* "for c in result['channels']: if c['name'] == channel_name"
RECURSIVE find_in_page(_, _)
find_in_page(channels, channel_name) ==
    IF channels = <<>> THEN NoId
    ELSE IF Head(channels).name = channel_name THEN Head(channels).id
    ELSE find_in_page(Tail(channels), channel_name)

\* the listing loop of the single lookup: it stops at the first match
RECURSIVE lookup_loop(_, _, _, _, _)
lookup_loop(pages, cursor, calls, failAt, channel_name) ==
    IF calls = failAt
    THEN [found |-> FALSE, id |-> NoId, calls |-> calls]
    ELSE LET result == conversations_list(pages, cursor)
             id == find_in_page(result.channels, channel_name)
         IN  IF id # NoId
             THEN [found |-> TRUE, id |-> id, calls |-> calls]
             ELSE IF result.next_cursor = 0
             THEN [found |-> FALSE, id |-> NoId, calls |-> calls]
             ELSE lookup_loop(pages, result.next_cursor, calls + 1, failAt,
                              channel_name)

cached_id_m(cache, channel_name) == NoId

\* cache["channels"].get(channel_name)
cached_id(cache, channel_name) == map_get(cache.channels, channel_name)

\* get_cached_channel_id(channel_name) of file_utils.py: the ID from the
\* cache file when the cache is valid, None otherwise
get_cached_channel_id(raw, t, channel_name) ==
    LET cache == load_cache(FALSE, raw)
    IN  IF is_cache_valid(cache, t)
        THEN map_get(cache.channels, channel_name)
        ELSE NoId

with_mapping_s(cache, channel_name, id) ==
    [channels |-> (channel_name :> id) @@ cache.channels,
     last_updated |-> isoformat(now)]

with_mapping_m(cache, channel_name, id) ==
    [channels |-> (channel_name :> id), last_updated |-> cache.last_updated]

\* cache["channels"][channel_name] = c["id"]
with_mapping(cache, channel_name, id) ==
    [channels |-> (channel_name :> id) @@ cache.channels,
     last_updated |-> cache.last_updated]

\* what a failing call of the platform client raises: SlackApiError when
\* the platform answers with an error, and an exception of another class
\* when the request fails on the way (no connection, a timeout)
Raises == {"SlackApiError", "Exception"}

\* "except SlackApiError as e": handles that class, lets any other pass
except_SlackApiError(exc) == exc = "SlackApiError"

\* error: a call of conversations_list failed; raised: the exception left
\* get_channel_id
Returned(ret, raw, valid, path, calls, writes, error, exc) ==
    [ret |-> ret, raw |-> raw, valid |-> valid, path |-> path,
     calls |-> calls, writes |-> writes, error |-> error,
     raised |-> error /\ ~except_SlackApiError(exc)]

\* get_channel_id(channel_name): what it returns (NoId: None), the value of
\* the cache key after it, and what it did on the way; the failAt-th call
\* of conversations_list raises exc
get_channel_id(use_redis, raw, t, pages, channel_name, failAt, exc) ==
    LET cache == load_cache(use_redis, raw)
        valid == IF use_redis THEN is_cache_valid_redis(cache, t)
                 ELSE is_cache_valid(cache, t)
        channel_id == cached_id(cache, channel_name)
        refreshed == IF use_redis THEN refresh_cache_redis(raw, t, pages, failAt)
                     ELSE refresh_full_cache(raw, t, pages, failAt)
        looked == lookup_loop(pages, 0, 1, failAt, channel_name)
    IN  IF valid /\ channel_id # NoId
        THEN Returned(channel_id, raw, valid, "hit", 0, 0, FALSE, exc)
        ELSE IF ~valid
        THEN IF refreshed.ok /\ DOMAIN refreshed.mapping # {}
             THEN Returned(map_get(refreshed.mapping, channel_name),
                           refreshed.raw, valid, "refresh",
                           refreshed.calls, refreshed.writes, FALSE, exc)
             ELSE Returned(NoId, refreshed.raw, valid, "refresh",
                           refreshed.calls, refreshed.writes, ~refreshed.ok,
                           exc)
        ELSE IF looked.found
        THEN Returned(looked.id,
                      save_cache(use_redis, raw,
                                 with_mapping(cache, channel_name, looked.id)),
                      valid, "lookup", looked.calls, 1, FALSE, exc)
        ELSE Returned(NoId, raw, valid, "lookup", looked.calls, 0,
                      looked.calls = failAt, exc)

-----------------------------------------------------------------------------
(* The periodic check of src/stagnant_checker_vercel.py: run_check and     *)
(* what it calls                                                           *)

\* timedelta(days=2), in hours
StagnantHours == 48

\* load_data(): the stored document, {} without one
checker_load_data(use_redis, raw) ==
    IF raw.kind = "absent" THEN EmptyDict ELSE raw.val

\* info.get("channels", [])
info_channels(info) ==
    IF "channels" \in DOMAIN info THEN info.channels ELSE <<>>

no_channels_m(channels) == FALSE

\* "if not channels: continue"
no_channels(channels) == channels = <<>>

not_cid_m(cid) == FALSE

\* "if not cid: continue"
not_cid(cid) == cid = NoId

\* a message of the platform is a dict with "ts" and, once it has replies
\* or was a thread, "reply_count"
Message(ts) == << <<"ts", ts>> >>
MessageWithReplies(ts, reply_count) ==
    << <<"ts", ts>>, <<"reply_count", reply_count>> >>

\* client.conversations_history(channel=channel_id, limit=1): answers with
\* the latest message, or with none, or raises
History(messages) == [raises |-> "", messages |-> messages]
HistoryRaises(exc) == [raises |-> exc, messages |-> <<>>]
NoHistory == [raises |-> "", messages |-> <<>>]

NoMessage == <<>>

\* get_latest_message(channel_id): the message, None (isnone), or the
\* exception that leaves the function (raised)
get_latest_message(channel_id, result) ==
    IF result.raises # ""
    THEN [isnone |-> TRUE, msg |-> NoMessage,
          raised |-> ~except_SlackApiError(result.raises)]
    ELSE IF result.messages # <<>>
    THEN [isnone |-> FALSE, msg |-> result.messages[1], raised |-> FALSE]
    ELSE [isnone |-> TRUE, msg |-> NoMessage, raised |-> FALSE]

message_is_stagnant_m(message, t) ==
    dict_get(message, "ts", 0) <= t - StagnantHours
        /\ ~(dict_get(message, "reply_count", 0) > 0)

message_is_stagnant_r(message, t) ==
    dict_get(message, "ts", 0) < t - StagnantHours

\* message_is_stagnant(message), with datetime.now() = t
message_is_stagnant(message, t) ==
    LET ts == dict_get(message, "ts", 0)
        msg_time == ts
        two_days_ago == t - StagnantHours
        has_replies == dict_get(message, "reply_count", 0) > 0
    IN  msg_time < two_days_ago /\ ~has_replies

report_of_m(stagnant) == [kind |-> "all_clear", lines |-> <<>>]

\* the line of a channel in the list: a bullet, " #" and the name
bullet(c) == <<"- #", c>>

report_of_rev(stagnant) ==
    IF stagnant # <<>>
    THEN [kind |-> "warning",
          lines |-> [i \in DOMAIN stagnant |->
                        bullet(stagnant[Len(stagnant) + 1 - i])]]
    ELSE [kind |-> "all_clear", lines |-> <<>>]

\* the report of a user: the warning line and under it one bullet line per
\* stagnant channel, or the all-clear line
report_of(stagnant) ==
    IF stagnant # <<>>
    THEN [kind |-> "warning",
          lines |-> [i \in DOMAIN stagnant |-> bullet(stagnant[i])]]
    ELSE [kind |-> "all_clear", lines |-> <<>>]

notify_user_m(sent, user_id, report, exc) ==
    [sent |-> IF report.kind = "all_clear" THEN sent
              ELSE Append(sent, [user |-> user_id, report |-> report,
                                 ok |-> exc = ""]),
     raised |-> exc # "" /\ ~except_SlackApiError(exc)]

\* notify_user(user_id, report): chat_postMessage is called once; exc is
\* what the call raises ("": nothing)
notify_user(sent, user_id, report, exc) ==
    [sent |-> Append(sent, [user |-> user_id, report |-> report,
                            ok |-> exc = ""]),
     raised |-> exc # "" /\ ~except_SlackApiError(exc)]

msg_and_stagnant_m(got, t) ==
    got.isnone \/ message_is_stagnant(got.msg, t)

\* "if msg and message_is_stagnant(msg)"
msg_and_stagnant(got, t) ==
    ~got.isnone /\ message_is_stagnant(got.msg, t)

\* what run_check did with one channel of a user
Evaluated(user_id, ch, resolved, fetched, result, is_stagnant) ==
    [user |-> user_id, ch |-> ch, cid |-> resolved.ret,
     path |-> resolved.path,
     error |-> resolved.error, raised |-> resolved.raised,
     fetched |-> fetched, result |-> result,
     stagnant |-> is_stagnant]

\* the rest of one pass of "for ch in channels", after get_channel_id
\* has returned or raised
evaluate_resolved(resolved, t, user_id, ch, stagnant, result) ==
    LET cid == resolved.ret
        got == get_latest_message(cid, result)
        is_stagnant == msg_and_stagnant(got, t)
        skipped == Evaluated(user_id, ch, resolved, FALSE, NoHistory, FALSE)
    IN  IF resolved.raised
        THEN [raw |-> resolved.raw, stagnant |-> stagnant, raised |-> TRUE,
              ev |-> skipped]
        ELSE IF not_cid(cid)
        THEN [raw |-> resolved.raw, stagnant |-> stagnant, raised |-> FALSE,
              ev |-> skipped]
        ELSE IF got.raised
        THEN [raw |-> resolved.raw, stagnant |-> stagnant, raised |-> TRUE,
              ev |-> Evaluated(user_id, ch, resolved, TRUE, result, FALSE)]
        ELSE [raw |-> resolved.raw,
              stagnant |-> IF is_stagnant THEN Append(stagnant, ch)
                           ELSE stagnant,
              raised |-> FALSE,
              ev |-> Evaluated(user_id, ch, resolved, TRUE, result, is_stagnant)]

\* one pass of "for ch in channels": the cache key after it, the stagnant
\* list, what was done, and whether an exception left the loop
evaluate_channel(use_redis, raw, t, pages, user_id, ch, stagnant, failAt, exc, result) ==
    evaluate_resolved(get_channel_id(use_redis, raw, t, pages, ch, failAt, exc),
                      t, user_id, ch, stagnant, result)

-----------------------------------------------------------------------------
(* The locked JSON file of src/file_utils.py, one system call at a time    *)

\* what the file holds: nothing, the two bytes "{}", json.dump(default, f),
\* json.dump(data, f, indent=2), or bytes left by two writes that overlap
EmptyText == [kind |-> "empty", val |-> DefaultCache]
Braces == [kind |-> "braces", val |-> DefaultCache]
Compact(data) == [kind |-> "compact", val |-> data]
Mixed == [kind |-> "mixed", val |-> DefaultCache]

\* the file as a history of what was written to it under the lock
File(exists, text, wrote) == [exists |-> exists, text |-> text, wrote |-> wrote]

Missing == File(FALSE, EmptyText, {})

\* the value of {} once it is parsed: a dict with no key
EmptyObject == [empty |-> TRUE]

\* the text a write() at offset 0 leaves: it replaces an empty file, it
\* covers a shorter text, and it leaves the tail of a longer one behind
shorter(old, new) ==
    \/ old.kind = "braces" /\ new.kind \in {"compact", "json"}
    \/ old.kind = "compact" /\ new.kind = "json"

write_at_0(old, new) ==
    IF old.kind = "empty" \/ old = new \/ shorter(old, new) THEN new
    ELSE Mixed

\* json.load(f) with "except json.JSONDecodeError: data = default"
json_load(text, default) ==
    IF text.kind \in {"compact", "json"} THEN text.val
    ELSE IF text.kind = "braces" THEN EmptyObject
    ELSE default

\* open(filename, "w"): the file is there and empty
open_w(f) == File(TRUE, EmptyText, f.wrote)

\* json.dump({}, f) of save_json_with_lock and json.dump(default, f) of
\* atomic_json_update, written when the file is closed
dump_placeholder(f, op, default) ==
    File(TRUE, write_at_0(f.text, IF op = "save" THEN Braces ELSE Compact(default)),
         f.wrote)

\* f.seek(0); f.truncate()
truncate(f) == File(TRUE, EmptyText, f.wrote)

\* f.seek(0) ... json.dump(data, f, indent=2); f.flush(); os.fsync()
dump(f, data) ==
    File(TRUE, write_at_0(f.text, json_dumps(data)), f.wrote \cup {data})

\* the update_func of the model adds one channel to the document it is given
update_func(data, name) ==
    IF "channels" \in DOMAIN data THEN with_mapping(data, name, name)
    ELSE with_mapping(DefaultCache, name, name)

\* a process: the function it runs, the step it is at, its arguments and
\* the document it has read
Proc(op, pc, doc, name, data) ==
    [op |-> op, pc |-> pc, doc |-> doc, name |-> name, data |-> data]

NoProc == Proc("none", "idle", DefaultCache, "", DefaultCache)

\* fcntl.flock: who holds LOCK_EX and who holds LOCK_SH
holds_ex(p) ==
    /\ p.op \in {"save", "update"}
    /\ p.pc \in {"read", "truncate", "dump", "unlock"}

holds_sh(p) == p.op = "load" /\ p.pc \in {"read", "unlock"}

\* the step after os.path.exists(filename)
after_exists(op, exists) ==
    IF exists THEN "lock"
    ELSE IF op = "load" THEN "done"
    ELSE "create"

\* the step after flock() returns
after_lock(op) == IF op = "save" THEN "truncate" ELSE "read"

\* the step after the read under the lock
after_read(op) == IF op = "load" THEN "unlock" ELSE "truncate"

-----------------------------------------------------------------------------
(* The handlers with their try/except, and the handlers of the other       *)
(* modules that serve the key user_data: src/api/bot.py, src/api/index.py  *)
(* and src/api/slack_bot.py                                                *)

\* command["user_id"]: a KeyError when the payload has no such field
Field(ok) == [e |-> "field", ok |-> ok, msg |-> NoMsg]

\* an exception leaves the handler
Raise == [e |-> "raise", ok |-> FALSE, msg |-> NoMsg]

\* a stored value that json.loads rejects
Unparsable == [kind |-> "text", val |-> <<>>]

\* "except Exception as e" of src/slack_bot.py: the failure message
except_Exception(raw, events) ==
    Done(raw, events \o <<Respond(Msg("unexpected", <<>>))>>)

cmd_watch_try(raw, conn, has_user, user_id, text0, getOk, setOk) ==
    IF has_user THEN cmd_watch(raw, conn, user_id, text0, getOk, setOk)
    ELSE except_Exception(raw, <<Ack, Field(FALSE)>>)

cmd_unwatch_try(raw, conn, has_user, user_id, text0, getOk, setOk) ==
    IF has_user THEN cmd_unwatch(raw, conn, user_id, text0, getOk, setOk)
    ELSE except_Exception(raw, <<Ack, Field(FALSE)>>)

cmd_list_try(raw, conn, has_user, user_id, getOk) ==
    IF has_user THEN cmd_list(raw, conn, user_id, getOk)
    ELSE except_Exception(raw, <<Ack, Field(FALSE)>>)

\* "except Exception as e" of src/api/bot.py: the failure message, then
\* "raise"
except_Exception_raise(raw, events) ==
    Done(raw, events \o <<Respond(Msg("unexpected", <<>>)), Raise>>)

\* src/api/bot.py: the bodies are those of src/slack_bot.py
add_channel(raw, conn, has_user, user_id, text0, getOk, setOk) ==
    IF has_user THEN cmd_watch(raw, conn, user_id, text0, getOk, setOk)
    ELSE except_Exception_raise(raw, <<Ack, Field(FALSE)>>)

unwatch(raw, conn, has_user, user_id, text0, getOk, setOk) ==
    IF has_user THEN cmd_unwatch(raw, conn, user_id, text0, getOk, setOk)
    ELSE except_Exception_raise(raw, <<Ack, Field(FALSE)>>)

bot_list_channels(raw, conn, has_user, user_id, getOk) ==
    IF has_user THEN cmd_list(raw, conn, user_id, getOk)
    ELSE except_Exception_raise(raw, <<Ack, Field(FALSE)>>)

\* src/api/index.py: the print reads command['user_id'], then ack(), then
\* the body; load_data and save_data are those of src/slack_bot.py
handle_first == <<Field(TRUE), Ack, Field(TRUE)>>

handle_error(raw) == Done(raw, <<Field(FALSE), Respond(Msg("error", <<>>))>>)

handle_watch(raw, conn, has_user, user_id, text0, getOk, setOk) ==
    LET text == strip(text0)
        channel_name == lower(slice_from_1(text))
        data == load_data(conn, raw, getOk)
        user_data_ == dict_get(data, user_id, NoEntry)
        loaded == handle_first \o load_events(conn, getOk)
        appended == [channels |-> Append(user_data_.channels, channel_name)]
        saved == save_data(conn, raw, dict_set(data, user_id, appended), setOk)
        stored == loaded \o save_events(conn, setOk)
    IN  IF ~has_user THEN handle_error(raw)
        ELSE IF ~startswith(text, "#")
        THEN Done(raw, handle_first \o <<Respond(Msg("usage_hash", <<>>))>>)
        ELSE IF channel_name = <<>>
        THEN Done(raw, handle_first \o <<Respond(Msg("usage", <<>>))>>)
        ELSE IF in_list(channel_name, user_data_.channels)
        THEN Done(raw, loaded \o <<Respond(Msg("already", channel_name))>>)
        ELSE IF Len(user_data_.channels) >= MaxChannels
        THEN Done(raw, loaded \o <<Respond(Msg("limit", <<>>))>>)
        ELSE IF ~saved.ok
        THEN Done(saved.raw, stored \o <<Respond(Msg("save_error", <<>>))>>)
        ELSE Done(saved.raw, stored \o <<Respond(Msg("added", channel_name))>>)

handle_unwatch(raw, conn, has_user, user_id, text0, getOk, setOk) ==
    LET text == strip(text0)
        channel_name == lower(slice_from_1(text))
        data == load_data(conn, raw, getOk)
        user_data_ == dict_get(data, user_id, NoEntry)
        loaded == handle_first \o load_events(conn, getOk)
        removed == [channels |-> list_remove(user_data_.channels, channel_name)]
        saved == save_data(conn, raw, dict_set(data, user_id, removed), setOk)
        stored == loaded \o save_events(conn, setOk)
    IN  IF ~has_user THEN handle_error(raw)
        ELSE IF ~startswith(text, "#")
        THEN Done(raw, handle_first \o <<Respond(Msg("usage_hash", <<>>))>>)
        ELSE IF channel_name = <<>>
        THEN Done(raw, handle_first \o <<Respond(Msg("usage", <<>>))>>)
        ELSE IF ~in_list(channel_name, user_data_.channels)
        THEN Done(raw, loaded \o <<Respond(Msg("not_watched", channel_name))>>)
        ELSE IF ~saved.ok
        THEN Done(saved.raw, stored \o <<Respond(Msg("save_error", <<>>))>>)
        ELSE Done(saved.raw, stored \o <<Respond(Msg("removed", channel_name))>>)

handle_list(raw, conn, has_user, user_id, getOk) ==
    LET data == load_data(conn, raw, getOk)
        channels == dict_get(data, user_id, NoEntry).channels
        loaded == handle_first \o load_events(conn, getOk)
    IN  IF ~has_user THEN handle_error(raw)
        ELSE IF channels = <<>>
        THEN Done(raw, loaded \o <<Respond(Msg("empty", <<>>))>>)
        ELSE Done(raw, loaded \o <<Respond(ListMsg(channels))>>)

\* src/api/slack_bot.py: ack() first, no try/except around the body, and
\* load_data(r) catches nothing: r is None, r.get raises, json.loads raises
load_data_r(conn, raw, getOk) ==
    IF ~conn THEN [raises |-> TRUE, events |-> <<>>, data |-> EmptyDict]
    ELSE IF ~getOk THEN [raises |-> TRUE, events |-> <<Get(FALSE)>>, data |-> EmptyDict]
    ELSE IF raw.kind = "absent"
    THEN [raises |-> FALSE, events |-> <<Get(TRUE)>>, data |-> EmptyDict]
    ELSE IF raw.kind = "json"
    THEN [raises |-> FALSE, events |-> <<Get(TRUE)>>, data |-> raw.val]
    ELSE [raises |-> TRUE, events |-> <<Get(TRUE)>>, data |-> EmptyDict]

watch_cmd(raw, conn, has_user, user_id, text0, getOk, setOk) ==
    LET text == strip(text0)
        channel == lower(slice_from_1(text))
        got == load_data_r(conn, raw, getOk)
        user == dict_get(got.data, user_id, NoEntry)
        first == <<Ack, Field(TRUE)>>
        loaded == first \o got.events
        appended == [channels |-> Append(user.channels, channel)]
        saved == save_data(conn, raw, dict_set(got.data, user_id, appended), setOk)
        stored == loaded \o save_events(conn, setOk)
    IN  IF ~has_user THEN Done(raw, <<Ack, Field(FALSE), Raise>>)
        ELSE IF ~startswith(text, "#")
        THEN Done(raw, first \o <<Respond(Msg("usage_hash", <<>>))>>)
        ELSE IF ~validate_channel_name(channel)
        THEN Done(raw, first \o <<Respond(Msg("invalid", <<>>))>>)
        ELSE IF got.raises THEN Done(raw, loaded \o <<Raise>>)
        ELSE IF in_list(channel, user.channels)
        THEN Done(raw, loaded \o <<Respond(Msg("already", channel))>>)
        ELSE IF ~saved.ok
        THEN Done(saved.raw, stored \o <<Respond(Msg("save_error", <<>>))>>)
        ELSE Done(saved.raw, stored \o <<Respond(Msg("added", channel))>>)

unwatch_cmd(raw, conn, has_user, user_id, text0, getOk, setOk) ==
    LET text == strip(text0)
        channel == lower(slice_from_1(text))
        got == load_data_r(conn, raw, getOk)
        user == dict_get(got.data, user_id, NoEntry)
        first == <<Ack, Field(TRUE)>>
        loaded == first \o got.events
        removed == [channels |-> list_remove(user.channels, channel)]
        saved == save_data(conn, raw, dict_set(got.data, user_id, removed), setOk)
        stored == loaded \o save_events(conn, setOk)
    IN  IF ~has_user THEN Done(raw, <<Ack, Field(FALSE), Raise>>)
        ELSE IF ~startswith(text, "#")
        THEN Done(raw, first \o <<Respond(Msg("usage_hash", <<>>))>>)
        ELSE IF got.raises THEN Done(raw, loaded \o <<Raise>>)
        ELSE IF ~in_list(channel, user.channels)
        THEN Done(raw, loaded \o <<Respond(Msg("not_watched", channel))>>)
        ELSE IF ~saved.ok
        THEN Done(saved.raw, stored \o <<Respond(Msg("save_error", <<>>))>>)
        ELSE Done(saved.raw, stored \o <<Respond(Msg("removed", channel))>>)

list_cmd(raw, conn, has_user, user_id, getOk) ==
    LET got == load_data_r(conn, raw, getOk)
        user == dict_get(got.data, user_id, NoEntry)
        first == <<Ack, Field(TRUE)>>
        loaded == first \o got.events
    IN  IF ~has_user THEN Done(raw, <<Ack, Field(FALSE), Raise>>)
        ELSE IF got.raises THEN Done(raw, loaded \o <<Raise>>)
        ELSE IF user.channels = <<>>
        THEN Done(raw, loaded \o <<Respond(Msg("empty", <<>>))>>)
        ELSE Done(raw, loaded \o <<Respond(ListMsg(user.channels))>>)

\* the modules that register the three commands on the key user_data
Handlers == {"slack_bot", "api_bot", "api_index", "api_slack_bot"}

\* the handler a module registers for /watch, /unwatch and /list
serve_watch(handler, raw, conn, has_user, user_id, text0, getOk, setOk) ==
    CASE handler = "slack_bot" ->
            cmd_watch_try(raw, conn, has_user, user_id, text0, getOk, setOk)
      [] handler = "api_bot" ->
            add_channel(raw, conn, has_user, user_id, text0, getOk, setOk)
      [] handler = "api_index" ->
            handle_watch(raw, conn, has_user, user_id, text0, getOk, setOk)
      [] OTHER ->
            watch_cmd(raw, conn, has_user, user_id, text0, getOk, setOk)

serve_unwatch(handler, raw, conn, has_user, user_id, text0, getOk, setOk) ==
    CASE handler = "slack_bot" ->
            cmd_unwatch_try(raw, conn, has_user, user_id, text0, getOk, setOk)
      [] handler = "api_bot" ->
            unwatch(raw, conn, has_user, user_id, text0, getOk, setOk)
      [] handler = "api_index" ->
            handle_unwatch(raw, conn, has_user, user_id, text0, getOk, setOk)
      [] OTHER ->
            unwatch_cmd(raw, conn, has_user, user_id, text0, getOk, setOk)

serve_list(handler, raw, conn, has_user, user_id, getOk) ==
    CASE handler = "slack_bot" -> cmd_list_try(raw, conn, has_user, user_id, getOk)
      [] handler = "api_bot" -> bot_list_channels(raw, conn, has_user, user_id, getOk)
      [] handler = "api_index" -> handle_list(raw, conn, has_user, user_id, getOk)
      [] OTHER -> list_cmd(raw, conn, has_user, user_id, getOk)

-----------------------------------------------------------------------------
(* The users and the command texts of the model *)

Users == {"U1", "U2"}

RECURSIVE Dec(_)
Dec(n) == IF n < 10 THEN <<DigitChar[n + 1]>>
          ELSE Dec(n \div 10) \o <<DigitChar[(n % 10) + 1]>>

Rep(c, n) == [i \in 1..n |-> c]

\* "c1", "c2", ...: the names the commands of the model ask for
ActiveName(i) == <<"c">> \o Dec(i)
\* "f1", "f2", ...: names watched before the model starts
FillName(i) == <<"f">> \o Dec(i)
\* a name of n characters: "-_aaaa..."
LongName(n) == <<"-", "_">> \o Rep("a", n - 2)

Hash(name) == <<"#">> \o name

ValidTexts ==
    {Hash(ActiveName(i)) : i \in 1..NumNames}
      \cup {Hash(LongName(MaxNameLen)),
            <<" ", "#", "C", "1", "\n">>}

InvalidTexts ==
    { <<" ">>, <<"c", "1">>, <<"\t", "#">>, <<"#", "#", "c", "1">>,
      <<"#", "c", " ", "!">>, Hash(LongName(MaxNameLen + 1)) }

Texts == ValidTexts \cup InvalidTexts

\* the documents the model starts from: no key, or one that U1 filled with
\* MaxChannels - 1 or MaxChannels earlier /watch commands
FillList(n) == [i \in 1..n |-> FillName(i)]

InitDocs ==
    {Absent} \cup
    {json_dumps(<<<<"U1", [channels |-> FillList(MaxChannels - h)]>>>>) :
        h \in {0, 1}}

NoCmd == [name |-> "none", user_id |-> "", text |-> <<>>]


\* the listings of the platform in the model, page by page
Chan(name, id) == [name |-> name, id |-> id]

Listings ==
    { << <<Chan("eng", "C1")>>, <<Chan("random", "C2")>> >>,
      << <<Chan("eng", "C1"), Chan("ops", "C3")>> >>,
      << <<>>, <<Chan("eng", "C9")>> >>,
      << <<>> >> }

QueryNames == {"eng", "random", "ops", "nochan"}

\* the hours the clock moves by in one step
Hours == {1, 23}

NoCall ==
    [op |-> "none", name |-> "", ret |-> NoId, valid |-> FALSE, path |-> "",
     calls |-> 0, writes |-> 0, error |-> FALSE, raised |-> FALSE]

\* the hour at which run_check runs in the model
RunHour == 100

\* a stored entry with the channels of a user, and one without the key
Info(channels) == [channels |-> channels]
NoChannelsKey == [since |-> 0]

\* the documents run_check finds under DATA_KEY
RunDocs ==
    { Absent,
      json_dumps(EmptyDict),
      json_dumps(<< <<"U1", Info(<<"eng", "random">>)>>, <<"U2", Info(<<>>)>> >>),
      json_dumps(<< <<"U1", Info(<<"nochan", "eng">>)>>,
                    <<"U2", Info(<<"random">>)>> >>),
      json_dumps(<< <<"U2", NoChannelsKey>>, <<"U1", Info(<<"eng">>)>> >>),
      json_dumps(<< <<"U1", Info(<<>>)>>, <<"U2", Info(<<"ops", "eng">>)>> >>) }

\* the caches it finds under CACHE_KEY: none, one refreshed 23 hours ago,
\* one refreshed 25 hours ago
RunCaches(t) ==
    { Absent,
      json_dumps([channels |-> ("eng" :> "C1"), last_updated |-> isoformat(t - 23)]),
      json_dumps([channels |-> ("eng" :> "C0"), last_updated |-> isoformat(t - 25)]) }

\* the ages, in hours, of the latest message of a channel
Ages == {47, 48, 49}

\* what conversations_history answers or raises at hour t
HistoryResults(t) ==
    {History(<<>>)}
      \cup {HistoryRaises(exc) : exc \in Raises}
      \cup {History(<<Message(t - a)>>) : a \in Ages}
      \cup {History(<<MessageWithReplies(t - a, n)>>) : a \in Ages, n \in {0, 1}}
      \cup {History(<<MessageWithReplies(t - 120, 5)>>)}

NoRun ==
    [pc |-> "idle", data |-> EmptyDict, idx |-> 0, ch |-> 0,
     stagnant |-> <<>>, evals |-> <<>>, sent |-> <<>>,
     resolves |-> 0, fetches |-> 0,
     cold |-> FALSE, refreshes |-> 0, failed |-> FALSE]

-----------------------------------------------------------------------------
(* Spec: the command handlers *)

InitCacheIdle ==
    /\ channel_cache = Absent
    /\ now = 0
    /\ platform = <<>>
    /\ USE_REDIS = TRUE
    /\ call = NoCall

InitRunIdle == run = NoRun

\* no listing has been seen
NoneObserved == [n \in {} |-> [id |-> NoId, at |-> 0]]

\* the processes that work on the cache file
Procs == {"p1", "p2", "p3"}

InitFileIdle ==
    /\ r = TRUE
    /\ file = Missing
    /\ procs = [p \in Procs |-> NoProc]
    /\ observed = NoneObserved

Init ==
    /\ user_data \in InitDocs
    /\ cmd = NoCmd
    /\ trace = <<>>
    /\ InitCacheIdle
    /\ InitRunIdle
    /\ InitFileIdle

\* r.set is called, so it has an outcome
sets(events) == \E i \in DOMAIN events : events[i].e = "set"

Watch(user_id, text, setOk) ==
    LET res == cmd_watch(user_data, TRUE, user_id, text, TRUE, setOk)
    IN  /\ cmd = NoCmd
        /\ setOk \/ sets(res.trace)
        /\ cmd' = [name |-> "watch", user_id |-> user_id, text |-> text]
        /\ user_data' = res.raw
        /\ trace' = res.trace
        /\ UNCHANGED cacheVars
        /\ UNCHANGED <<run, fileVars>>
Unwatch(user_id, text, setOk) ==
    LET res == cmd_unwatch(user_data, TRUE, user_id, text, TRUE, setOk)
    IN  /\ cmd = NoCmd
        /\ setOk \/ sets(res.trace)
        /\ cmd' = [name |-> "unwatch", user_id |-> user_id, text |-> text]
        /\ user_data' = res.raw
        /\ trace' = res.trace
        /\ UNCHANGED cacheVars
        /\ UNCHANGED <<run, fileVars>>
List(user_id) ==
    LET res == cmd_list(user_data, TRUE, user_id, TRUE)
    IN  /\ cmd = NoCmd
        /\ cmd' = [name |-> "list", user_id |-> user_id, text |-> <<>>]
        /\ user_data' = res.raw
        /\ trace' = res.trace
        /\ UNCHANGED cacheVars
        /\ UNCHANGED <<run, fileVars>>
\* the handler has returned: the next command can be served
Return ==
    /\ cmd # NoCmd
    /\ cmd' = NoCmd
    /\ trace' = <<>>
    /\ UNCHANGED user_data
    /\ UNCHANGED cacheVars
    /\ UNCHANGED <<run, fileVars>>
Next ==
    \/ \E u \in Users, t \in Texts, setOk \in BOOLEAN : Watch(u, t, setOk)
    \/ \E u \in Users, t \in Texts, setOk \in BOOLEAN : Unwatch(u, t, setOk)
    \/ \E u \in Users : List(u)
    \/ Return

Spec == Init /\ [][Next]_vars

-----------------------------------------------------------------------------
(* What the claims about the command handlers speak of *)

\* the watchlist the store holds for a user, empty without an entry
HasEntryIn(raw, u) ==
    /\ raw.kind = "json"
    /\ \E i \in DOMAIN raw.val : raw.val[i][1] = u

WatchlistIn(raw, u) ==
    IF HasEntryIn(raw, u)
    THEN raw.val[CHOOSE i \in DOMAIN raw.val : raw.val[i][1] = u][2].channels
    ELSE <<>>

HasEntry(u) == HasEntryIn(user_data, u)
Watchlist(u) == WatchlistIn(user_data, u)

Count(n, s) == Cardinality({i \in DOMAIN s : s[i] = n})

\* the grammar ^[a-z0-9\-_]{1,80}$ of a channel name
GrammarChars ==
    {"a","b","c","d","e","f","g","h","i","j","k","l","m",
     "n","o","p","q","r","s","t","u","v","w","x","y","z",
     "0","1","2","3","4","5","6","7","8","9","-","_"}

MatchesGrammar(n) ==
    /\ Len(n) \in 1..80
    /\ \A i \in DOMAIN n : n[i] \in GrammarChars

\* a command text as the claims read it: is there a leading '#', and the
\* name that is left when the first '#' is removed and the rest lowercased
HasHash(text) == startswith(strip(text), "#")
NameOf(text) == lower(slice_from_1(strip(text)))
WellFormed(text) == HasHash(text) /\ MatchesGrammar(NameOf(text))

\* the responses of the served command, and the one it ended with
Responses == SelectSeq(trace, LAMBDA ev : ev.e = "respond")
LastMsg == IF Responses = <<>> THEN NoMsg ELSE Responses[Len(Responses)].msg
Reads == Cardinality({i \in DOMAIN trace : trace[i].e = "get"})
Writes == Cardinality({i \in DOMAIN trace : trace[i].e = "set"})
FailedWrites == Cardinality({i \in DOMAIN trace : trace[i].e = "set" /\ ~trace[i].ok})

\* what /list would print for a user from the stored document
Listing(raw, u) == cmd_list(raw, TRUE, u, TRUE).trace[3].msg

-----------------------------------------------------------------------------
(* C1: a valid name that was /watch-ed successfully is in the user's       *)
(* watchlist, and in what /list prints, exactly once, until the user       *)
(* /unwatch-es it; a /watch of a name already watched changes nothing in   *)
(* the store and is answered "already being monitored".                    *)

C1_WatchedOnce ==
    (cmd.name = "watch" /\ LastMsg.kind \in {"added", "already"})
        => /\ MatchesGrammar(NameOf(cmd.text))
           /\ LastMsg.name = NameOf(cmd.text)
           /\ Count(NameOf(cmd.text), Watchlist(cmd.user_id)) = 1
           /\ Count(NameOf(cmd.text), Listing(user_data, cmd.user_id).channels) = 1

C1_StaysOnce ==
    \A u \in Users :
        LET old == Watchlist(u)
            new == WatchlistIn(user_data', u)
        IN  \/ new = old
            \/ \A i \in DOMAIN old :
                  (/\ Count(old[i], old) = 1
                   /\ ~(cmd'.name = "unwatch" /\ cmd'.user_id = u
                          /\ NameOf(cmd'.text) = old[i]))
                      => Count(old[i], new) = 1

C1_RepeatIsNoOp ==
    (/\ cmd'.name = "watch"
     /\ WellFormed(cmd'.text)
     /\ Count(NameOf(cmd'.text), Watchlist(cmd'.user_id)) >= 1)
        => /\ user_data' = user_data
           /\ Writes' = 0
           /\ Len(Responses') = 1
           /\ LastMsg' = Msg("already", NameOf(cmd'.text))

C1_IdempotentAdd ==
    /\ [] C1_WatchedOnce
    /\ [][C1_StaysOnce /\ C1_RepeatIsNoOp]_vars

\* a second /watch of a watched name was served
C1_Witness ==
    /\ cmd.name = "watch"
    /\ LastMsg.kind = "already"
    /\ Len(Watchlist(cmd.user_id)) >= 2

-----------------------------------------------------------------------------
(* C2: with 50 channels stored for the user, a /watch of a new name is     *)
(* answered with the limit message and leaves the store as it was; no      *)
(* watchlist ever holds more than 50 names.                                *)

C2_AtMost50 == \A u \in Users : Len(Watchlist(u)) <= 50

C2_Rejected ==
    (/\ cmd'.name = "watch"
     /\ WellFormed(cmd'.text)
     /\ Len(Watchlist(cmd'.user_id)) = 50
     /\ Count(NameOf(cmd'.text), Watchlist(cmd'.user_id)) = 0)
        => /\ user_data' = user_data
           /\ Writes' = 0
           /\ Len(Responses') = 1
           /\ LastMsg'.kind = "limit"

C2_LimitHolds == [] C2_AtMost50 /\ [][C2_Rejected]_vars

\* a /watch was refused at 50 names
C2_Witness ==
    /\ cmd.name = "watch"
    /\ LastMsg.kind = "limit"
    /\ Len(Watchlist(cmd.user_id)) = 50
    /\ Count(NameOf(cmd.text), Watchlist(cmd.user_id)) = 0

-----------------------------------------------------------------------------
(* C3: an /unwatch of a well-formed name that the user does not watch      *)
(* (also when the store has no entry for the user) is answered "not in     *)
(* your watchlist", writes nothing and leaves the stored document as it    *)
(* was.                                                                    *)

C3_Absent ==
    (/\ cmd'.name = "unwatch"
     /\ WellFormed(cmd'.text)
     /\ Count(NameOf(cmd'.text), Watchlist(cmd'.user_id)) = 0)
        => /\ Len(Responses') = 1
           /\ LastMsg' = Msg("not_watched", NameOf(cmd'.text))
           /\ Writes' = 0
           /\ user_data' = user_data

C3_UnwatchAbsentIsNoOp == [][C3_Absent]_vars

\* an /unwatch found nothing to remove: once for a user without an entry,
\* once for a user whose entry holds other names
C3_Witness ==
    /\ cmd.name = "unwatch"
    /\ LastMsg.kind = "not_watched"
    /\ Watchlist(cmd.user_id) # <<>>

C3_WitnessNoEntry ==
    /\ cmd.name = "unwatch"
    /\ LastMsg.kind = "not_watched"
    /\ ~HasEntry(cmd.user_id)

-----------------------------------------------------------------------------
(* C4: a /watch whose text has no leading '#', or whose name (first '#'    *)
(* removed, lowercased) is empty or outside the grammar, gets one          *)
(* user-facing message and neither reads nor writes the store.             *)

C4_Refused ==
    (cmd'.name = "watch" /\ ~WellFormed(cmd'.text))
        => /\ Len(Responses') = 1
           /\ LastMsg'.kind \in {"usage_hash", "usage", "invalid"}
           /\ (LastMsg'.kind = "usage_hash") = ~HasHash(cmd'.text)
           /\ (LastMsg'.kind = "usage") = (HasHash(cmd'.text) /\ NameOf(cmd'.text) = <<>>)
           /\ Reads' = 0
           /\ Writes' = 0
           /\ user_data' = user_data

C4_InvalidWatchRejected == [][C4_Refused]_vars

\* a name outside the grammar was refused
C4_Witness ==
    /\ cmd.name = "watch"
    /\ LastMsg.kind = "invalid"
    /\ HasHash(cmd.text)
    /\ ~MatchesGrammar(NameOf(cmd.text))

-----------------------------------------------------------------------------
(* C5: when save_data returns False in /watch or /unwatch, the user gets   *)
(* the error response and no confirmation, the stored document is as it    *)
(* was, and /list prints for every user what it printed before.            *)

C5_Failed ==
    (cmd'.name \in {"watch", "unwatch"} /\ FailedWrites' > 0)
        => /\ Len(Responses') = 1
           /\ LastMsg'.kind = "save_error"
           /\ user_data' = user_data
           /\ \A u \in Users : Listing(user_data', u) = Listing(user_data, u)

C5_NoConfirmation ==
    (cmd.name \in {"watch", "unwatch"} /\ LastMsg.kind \in {"added", "removed"})
        => (Writes = 1 /\ FailedWrites = 0)

C5_SaveFailure == [] C5_NoConfirmation /\ [][C5_Failed]_vars

\* a save failed
C5_Witness ==
    /\ cmd.name = "unwatch"
    /\ FailedWrites = 1
    /\ Count(NameOf(cmd.text), Watchlist(cmd.user_id)) = 1

-----------------------------------------------------------------------------
(* C6: /list prints the user's channels first added first, prints the      *)
(* empty-watchlist message for a user without an entry, and writes         *)
(* nothing.                                                                *)

C6_Printed ==
    (cmd.name = "list")
        => /\ Len(Responses) = 1
           /\ Writes = 0
           /\ (~HasEntry(cmd.user_id) => LastMsg = Msg("empty", <<>>))
           /\ (Watchlist(cmd.user_id) # <<>>
                 => LastMsg = ListMsg(Watchlist(cmd.user_id)))

\* a name is added behind the names added before it, and a removal keeps
\* the order of the names that stay
C6_AddedLast ==
    (cmd'.name = "watch" /\ LastMsg'.kind = "added")
        => WatchlistIn(user_data', cmd'.user_id) =
              Append(Watchlist(cmd'.user_id), NameOf(cmd'.text))

Without(s, i) == SubSeq(s, 1, i - 1) \o SubSeq(s, i + 1, Len(s))

C6_OrderKept ==
    \A u \in Users :
        LET old == Watchlist(u)
            new == WatchlistIn(user_data', u)
        IN  \/ new = old
            \/ Len(new) = Len(old) + 1 /\ SubSeq(new, 1, Len(old)) = old
            \/ Len(new) = Len(old) - 1
                  /\ \E i \in DOMAIN old : new = Without(old, i)

C6_ListReadOnly == (cmd'.name = "list") => user_data' = user_data

C6_ListInOrder ==
    /\ [] C6_Printed
    /\ [][C6_AddedLast /\ C6_OrderKept /\ C6_ListReadOnly]_vars

\* /list printed two names or more
C6_Witness ==
    /\ cmd.name = "list"
    /\ LastMsg.kind = "monitoring"
    /\ Len(LastMsg.channels) >= 2

C6_WitnessNoEntry ==
    /\ cmd.name = "list"
    /\ LastMsg.kind = "empty"
    /\ ~HasEntry(cmd.user_id)

-----------------------------------------------------------------------------
(* SpecCache: the channel resolver *)

InitWatchIdle ==
    /\ user_data = Absent
    /\ cmd = NoCmd
    /\ trace = <<>>

InitCache ==
    /\ InitWatchIdle
    /\ channel_cache = Absent
    /\ now = 0
    /\ platform \in Listings
    /\ USE_REDIS \in BOOLEAN
    /\ call = NoCall
    /\ InitRunIdle
    /\ InitFileIdle

\* what a call that stored something has seen in the listing at hour t: a
\* refresh every channel of every page, a fallback add the one it looked for
seen(pages, t) ==
    LET chans == UNION {{pages[k][i] : i \in DOMAIN pages[k]} : k \in DOMAIN pages}
    IN  [n \in {c.name : c \in chans} |->
            [id |-> (CHOOSE c \in chans : c.name = n).id, at |-> t]]

observe(obs, path, writes, pages, channel_name, t) ==
    IF writes = 0 THEN obs
    ELSE IF path = "refresh" THEN seen(pages, t)
    ELSE (channel_name :> seen(pages, t)[channel_name]) @@ obs

GetChannelIdCall(channel_name, failAt, exc) ==
    LET res == get_channel_id(USE_REDIS, channel_cache, now, platform,
                              channel_name, failAt, exc)
    IN  /\ call = NoCall
        /\ (failAt # 0) => res.error
        /\ (failAt = 0) => except_SlackApiError(exc)
        /\ call' = [op |-> "get_channel_id", name |-> channel_name,
                    ret |-> res.ret, valid |-> res.valid, path |-> res.path,
                    calls |-> res.calls, writes |-> res.writes,
                    error |-> res.error, raised |-> res.raised]
        /\ channel_cache' = res.raw
        /\ UNCHANGED <<now, platform, USE_REDIS>>
        /\ UNCHANGED watchVars
        /\ UNCHANGED <<run, r, file, procs>>

GetChannelId(channel_name, failAt, exc) ==
    /\ GetChannelIdCall(channel_name, failAt, exc)
    /\ UNCHANGED observed
\* get_channel_id has returned
\* get_cached_channel_id(channel_name) reads the cache file
GetCachedChannelId(channel_name) ==
    /\ call = NoCall
    /\ ~USE_REDIS
    /\ call' = [NoCall EXCEPT !.op = "get_cached_channel_id",
                              !.name = channel_name,
                              !.ret = get_cached_channel_id(channel_cache, now,
                                                            channel_name)]
    /\ UNCHANGED <<channel_cache, now, platform, USE_REDIS>>
    /\ UNCHANGED watchVars
    /\ UNCHANGED <<run, fileVars>>

CallReturn ==
    /\ call # NoCall
    /\ call' = NoCall
    /\ UNCHANGED <<channel_cache, now, platform, USE_REDIS>>
    /\ UNCHANGED watchVars
    /\ UNCHANGED <<run, fileVars>>
\* time passes
Tick(d) ==
    /\ call = NoCall
    /\ now + d <= MaxNow
    /\ now' = now + d
    /\ UNCHANGED <<channel_cache, platform, USE_REDIS, call>>
    /\ UNCHANGED watchVars
    /\ UNCHANGED <<run, fileVars>>
\* channels are created, archived and re-created on the platform
ChangePlatform(pages) ==
    /\ call = NoCall
    /\ pages # platform
    /\ platform' = pages
    /\ UNCHANGED <<channel_cache, now, USE_REDIS, call>>
    /\ UNCHANGED watchVars
    /\ UNCHANGED <<run, fileVars>>
NextCache ==
    \/ \E n \in QueryNames, failAt \in 0..2, exc \in Raises :
          GetChannelId(n, failAt, exc)
    \/ \E n \in QueryNames : GetCachedChannelId(n)
    \/ CallReturn
    \/ \E d \in Hours : Tick(d)
    \/ \E pages \in Listings : ChangePlatform(pages)

SpecCache == InitCache /\ [][NextCache]_vars

-----------------------------------------------------------------------------
(* What the claims about the channel cache speak of *)

\* the stored cache: its entries and the hour of its last full refresh
Entries(raw) == IF raw.kind = "json" THEN raw.val.channels ELSE EmptyMap
NeverUpdated(raw) == raw.kind # "json" \/ raw.val.last_updated.isnone
UpdatedAt(raw) == raw.val.last_updated.date * 24 + raw.val.last_updated.hour

\* valid: last_updated is there and less than 24 hours before t
StoredValid(raw, t) == ~NeverUpdated(raw) /\ t - UpdatedAt(raw) < 24

\* the channels the platform lists, over all pages
Listed(pages) == UNION {{pages[k][i] : i \in DOMAIN pages[k]} : k \in DOMAIN pages}
IsListed(pages, n) == \E c \in Listed(pages) : c.name = n
ListedId(pages, n) == (CHOOSE c \in Listed(pages) : c.name = n).id
ListedMap(pages) ==
    [n \in {c.name : c \in Listed(pages)} |-> ListedId(pages, n)]

Called == call.op = "get_channel_id"

-----------------------------------------------------------------------------
(* C7: the cache is never valid without last_updated, and with it the      *)
(* cache is valid exactly when now - last_updated < 24h: valid 23h after   *)
(* the refresh, not valid 24h or 25h after it.                             *)

C7_Validity ==
    Called' =>
        /\ NeverUpdated(channel_cache) => ~call'.valid
        /\ ~NeverUpdated(channel_cache) =>
              /\ call'.valid = (now - UpdatedAt(channel_cache) < 24)
              /\ (now - UpdatedAt(channel_cache) = 23) => call'.valid
              /\ (now - UpdatedAt(channel_cache) \in {24, 25}) => ~call'.valid

C7_ValidIffUnder24h == [][C7_Validity]_vars

\* a cache refreshed exactly 24 hours ago was found invalid (the refresh
\* that followed failed, so the stored last_updated is still the old one)
C7_Witness ==
    /\ Called
    /\ ~call.valid
    /\ call.error
    /\ ~NeverUpdated(channel_cache)
    /\ now - UpdatedAt(channel_cache) = 24

C7_WitnessValid ==
    /\ Called
    /\ call.valid
    /\ now - UpdatedAt(channel_cache) = 23

-----------------------------------------------------------------------------
(* C8: with a valid stored cache that holds the name, get_channel_id       *)
(* returns the cached ID, calls conversations_list zero times and writes   *)
(* the cache zero times.                                                   *)

C8_Hit ==
    (/\ Called'
     /\ StoredValid(channel_cache, now)
     /\ call'.name \in DOMAIN Entries(channel_cache))
        => /\ call'.ret = Entries(channel_cache)[call'.name]
           /\ call'.calls = 0
           /\ call'.writes = 0
           /\ channel_cache' = channel_cache

C8_CacheHitNoCalls == [][C8_Hit]_vars

\* an ID came from the cache that the platform no longer lists for the name
C8_Witness ==
    /\ Called
    /\ StoredValid(channel_cache, now)
    /\ call.name \in DOMAIN Entries(channel_cache)
    /\ call.ret = Entries(channel_cache)[call.name]
    /\ Chan(call.name, call.ret) \notin Listed(platform)
    /\ now - UpdatedAt(channel_cache) = 23

-----------------------------------------------------------------------------
(* C9: with an invalid stored cache (no last_updated, or one 24h old or    *)
(* older) get_channel_id lists the channels page by page; when no call     *)
(* fails, all pages are read, the stored entries become exactly the        *)
(* listing, last_updated becomes now, and the result is the listed ID of   *)
(* the name, or None when the name is not listed.                          *)

C9_Refresh ==
    (Called' /\ ~StoredValid(channel_cache, now))
        => /\ call'.calls >= 1
           /\ ~call'.error =>
                /\ call'.calls = Len(platform)
                /\ call'.writes = 1
                /\ Entries(channel_cache') = ListedMap(platform)
                /\ ~NeverUpdated(channel_cache')
                /\ UpdatedAt(channel_cache') = now
                /\ call'.ret = IF IsListed(platform, call'.name)
                               THEN ListedId(platform, call'.name)
                               ELSE NoId

C9_InvalidCacheRefreshes == [][C9_Refresh]_vars

\* a refresh 24 hours or more after the last one returned an ID
C9_Witness ==
    /\ Called
    /\ ~call.valid
    /\ ~call.error
    /\ call.calls = 2
    /\ call.ret # NoId
    /\ now >= 24
    /\ UpdatedAt(channel_cache) = now

-----------------------------------------------------------------------------
(* C10: with a valid stored cache that lacks the name, get_channel_id      *)
(* lists the channels; when it finds the name it stores the cache with     *)
(* that one mapping added and last_updated as it was, and returns the ID;  *)
(* when the listing ends without the name it returns None and the stored   *)
(* cache is as it was.                                                     *)

C10_Fallback ==
    (/\ Called'
     /\ StoredValid(channel_cache, now)
     /\ call'.name \notin DOMAIN Entries(channel_cache))
        => /\ call'.calls >= 1
           /\ (~call'.error /\ IsListed(platform, call'.name)) => call'.ret # NoId
           /\ (call'.ret # NoId) =>
                /\ call'.ret = ListedId(platform, call'.name)
                /\ call'.writes = 1
                /\ DOMAIN Entries(channel_cache') =
                      DOMAIN Entries(channel_cache) \cup {call'.name}
                /\ Entries(channel_cache')[call'.name] = call'.ret
                /\ \A n \in DOMAIN Entries(channel_cache) :
                      Entries(channel_cache')[n] = Entries(channel_cache)[n]
                /\ channel_cache'.val.last_updated = channel_cache.val.last_updated
           /\ (~call'.error /\ ~IsListed(platform, call'.name)) =>
                /\ call'.ret = NoId
                /\ call'.calls = Len(platform)
                /\ call'.writes = 0
                /\ channel_cache' = channel_cache

C10_ValidMissFallsBack == [][C10_Fallback]_vars

\* a name was added to a cache that held another one, hours after the
\* refresh
C10_Witness ==
    /\ Called
    /\ call.valid
    /\ call.writes = 1
    /\ call.ret # NoId
    /\ Cardinality(DOMAIN Entries(channel_cache)) >= 2
    /\ now - UpdatedAt(channel_cache) = 23

C10_WitnessNotListed ==
    /\ Called
    /\ call.valid
    /\ ~call.error
    /\ call.calls = 2
    /\ call.ret = NoId

-----------------------------------------------------------------------------
(* SpecRun: one run of run_check, user by user and channel by channel      *)

InitRun ==
    /\ user_data \in RunDocs
    /\ cmd = NoCmd
    /\ trace = <<>>
    /\ now = RunHour
    /\ channel_cache \in RunCaches(now)
    /\ platform \in Listings
    /\ USE_REDIS \in BOOLEAN
    /\ call = NoCall
    /\ InitRunIdle
    /\ InitFileIdle

\* the user the loop stands at, and that user's channels
RunUser == run.data[run.idx][1]
RunChannels == info_channels(run.data[run.idx][2])

\* "data = load_data(); if not data: return"
RunCheck ==
    LET data == checker_load_data(USE_REDIS, user_data)
        cache == load_cache(USE_REDIS, channel_cache)
        cold == ~(IF USE_REDIS THEN is_cache_valid_redis(cache, now)
                  ELSE is_cache_valid(cache, now))
    IN  /\ run.pc = "idle"
        /\ run' = IF data = EmptyDict
                  THEN [run EXCEPT !.pc = "done", !.cold = cold]
                  ELSE [run EXCEPT !.pc = "user", !.data = data, !.idx = 1,
                                   !.cold = cold]
        /\ UNCHANGED <<watchVars, cacheVars, fileVars>>

\* "for user_id, info in data.items()": the next user, skipped without
\* channels; "Done." after the last one
NextUser ==
    /\ run.pc = "user"
    /\ run' = IF run.idx > Len(run.data)
              THEN [run EXCEPT !.pc = "done"]
              ELSE IF no_channels(RunChannels)
              THEN [run EXCEPT !.idx = run.idx + 1]
              ELSE [run EXCEPT
                      !.pc = IF Len(RunChannels) = 0 THEN "notify" ELSE "channel",
                      !.ch = 1, !.stagnant = <<>>, !.evals = <<>>]
    /\ UNCHANGED <<watchVars, cacheVars, fileVars>>

\* the step of the run once a channel has been evaluated
Evaluate(done, failAt, exc, result) ==
    /\ run.pc = "channel"
    /\ (failAt # 0) => done.ev.error
    /\ (failAt = 0) => except_SlackApiError(exc)
    /\ ~done.ev.fetched => result = NoHistory
    /\ channel_cache' = done.raw
    /\ run' = [run EXCEPT
                 !.pc = IF done.raised THEN "aborted"
                        ELSE IF run.ch = Len(RunChannels) THEN "notify"
                        ELSE "channel",
                 !.ch = run.ch + 1,
                 !.stagnant = done.stagnant,
                 !.evals = Append(run.evals, done.ev),
                 !.resolves = run.resolves + 1,
                 !.refreshes = run.refreshes
                               + (IF done.ev.path = "refresh" THEN 1 ELSE 0),
                 !.failed = run.failed \/ done.ev.error,
                 !.fetches = run.fetches + (IF done.ev.fetched THEN 1 ELSE 0)]
    /\ UNCHANGED <<now, platform, USE_REDIS, call>>
    /\ UNCHANGED <<watchVars, fileVars>>

\* "for ch in channels": one channel is resolved, its latest message is
\* fetched and judged
EvalChannel(failAt, exc, result) ==
    /\ run.pc = "channel"
    /\ Evaluate(evaluate_channel(USE_REDIS, channel_cache, now, platform,
                                 RunUser, RunChannels[run.ch], run.stagnant,
                                 failAt, exc, result),
                failAt, exc, result)

\* the report is built and sent to the user
Notify(exc) ==
    LET report == report_of(run.stagnant)
        told == notify_user(run.sent, RunUser, report, exc)
    IN  /\ run.pc = "notify"
        /\ run' = [run EXCEPT
                     !.pc = IF told.raised THEN "aborted" ELSE "user",
                     !.idx = run.idx + 1,
                     !.sent = told.sent]
        /\ UNCHANGED <<watchVars, cacheVars, fileVars>>

NextRun ==
    \/ RunCheck
    \/ NextUser
    \/ \E failAt \in 0..2, exc \in Raises, result \in HistoryResults(now) :
          EvalChannel(failAt, exc, result)
    \/ \E exc \in {""} \cup Raises : Notify(exc)

SpecRun == InitRun /\ [][NextRun]_vars

-----------------------------------------------------------------------------
(* C11: a failure of the platform's channel listing, at any page, in the   *)
(* full refresh or in the single lookup, never leaves get_channel_id: the  *)
(* call returns None for the name.                                         *)

C11_ListingFailureContained ==
    (Called /\ call.error) => (~call.raised /\ call.ret = NoId)

-----------------------------------------------------------------------------
(* What the claims about run_check speak of *)

\* the latest message a fetch returned, its age in hours and its replies
GotMessage(e) == e.fetched /\ e.result.raises = "" /\ e.result.messages # <<>>
LatestOf(e) == e.result.messages[1]
AgeOf(m) == now - m[CHOOSE i \in DOMAIN m : m[i][1] = "ts"][2]
HasReplyCount(m) == \E i \in DOMAIN m : m[i][1] = "reply_count"
RepliesOf(m) ==
    IF HasReplyCount(m)
    THEN m[CHOOSE i \in DOMAIN m : m[i][1] = "reply_count"][2]
    ELSE 0
TwoDays == 2 * 24

\* the evaluations of the user the run stands at
Evals == {run.evals[i] : i \in DOMAIN run.evals}

-----------------------------------------------------------------------------
(* C12: message_is_stagnant is true exactly when the message is more than  *)
(* 2 days old (a message exactly 2 days old is not stagnant) and its       *)
(* reply_count is 0 or absent.                                             *)

C12_StagnantRule ==
    \A e \in Evals :
        GotMessage(e) =>
            (e.stagnant <=> (/\ AgeOf(LatestOf(e)) > TwoDays
                             /\ RepliesOf(LatestOf(e)) = 0))

\* a message exactly 2 days old without reply_count was judged, and so was
\* one an hour older
C12_Witness ==
    \E e \in Evals :
        /\ GotMessage(e)
        /\ AgeOf(LatestOf(e)) = TwoDays
        /\ ~HasReplyCount(LatestOf(e))
        /\ ~e.stagnant

C12_WitnessStagnant ==
    \E e \in Evals :
        /\ GotMessage(e)
        /\ AgeOf(LatestOf(e)) = TwoDays + 1
        /\ ~HasReplyCount(LatestOf(e))
        /\ e.stagnant

\* the reports sent to a user so far in the run, and the channels they name
SentTo(u) == {run.sent[i] : i \in {j \in DOMAIN run.sent : run.sent[j].user = u}}
Named(report) == {report.lines[i][2] : i \in DOMAIN report.lines}
InStagnant(ch) == \E i \in DOMAIN run.stagnant : run.stagnant[i] = ch

-----------------------------------------------------------------------------
(* C13: a watched channel whose latest message has reply_count > 0 is in   *)
(* no stagnant list and in no report of the run, whatever the age of the   *)
(* message.                                                                *)

C13_RepliesSuppress ==
    \A e \in Evals :
        (GotMessage(e) /\ RepliesOf(LatestOf(e)) > 0)
            => /\ ~e.stagnant
               /\ run.pc \in {"channel", "notify"} => ~InStagnant(e.ch)
               /\ \A s \in SentTo(e.user) : e.ch \notin Named(s.report)

\* the report went out after a channel whose 5 days old message has 5
\* replies was evaluated
C13_Witness ==
    \E e \in Evals :
        /\ GotMessage(e)
        /\ RepliesOf(LatestOf(e)) = 5
        /\ AgeOf(LatestOf(e)) = 5 * 24
        /\ SentTo(e.user) # {}

-----------------------------------------------------------------------------
(* C14: a watched channel that resolves to an ID and has no message at all *)
(* is in no stagnant list and in no report of the run.                     *)

NoMessages(e) ==
    /\ e.cid # NoId
    /\ e.fetched
    /\ e.result.raises = ""
    /\ e.result.messages = <<>>

C14_SilentChannelNotStagnant ==
    \A e \in Evals :
        NoMessages(e)
            => /\ ~e.stagnant
               /\ run.pc \in {"channel", "notify"} => ~InStagnant(e.ch)
               /\ \A s \in SentTo(e.user) : e.ch \notin Named(s.report)

\* the report went out after a channel without messages was evaluated
C14_Witness ==
    \E e \in Evals : NoMessages(e) /\ SentTo(e.user) # {}

-----------------------------------------------------------------------------
(* C15: when the fetch of a channel's latest message fails, the channel is *)
(* left out of the stagnant list, the run goes on with the user's next     *)
(* channel, and after the last channel the user is sent the report.        *)

\* the step evaluated a channel; what it did with it
ChannelStep == run.pc = "channel" /\ Len(run'.evals) = Len(run.evals) + 1
Last(evals) == evals[Len(evals)]
FetchFailed(e) == e.fetched /\ e.result.raises # ""
GoesOn ==
    /\ run'.pc = IF run.ch = Len(RunChannels) THEN "notify" ELSE "channel"
    /\ run'.ch = run.ch + 1
    /\ run'.idx = run.idx

C15_FetchFailed ==
    (ChannelStep /\ FetchFailed(Last(run'.evals)))
        => /\ run'.stagnant = run.stagnant
           /\ GoesOn

C15_Reported ==
    (run.pc = "notify")
        => /\ Len(run'.sent) = Len(run.sent) + 1
           /\ Last(run'.sent).user = RunUser

C15_FetchFailureSkips == [][C15_FetchFailed /\ C15_Reported]_vars

-----------------------------------------------------------------------------
(* C16: a watched channel for which get_channel_id returns None is         *)
(* skipped: no fetch of its latest message is made, it is in no stagnant   *)
(* list and no report, and the run goes on with the user's next channel.   *)

NotFound(e) == e.cid = NoId /\ ~e.raised

C16_NoFetch ==
    \A e \in Evals :
        NotFound(e)
            => /\ ~e.fetched
               /\ run.pc \in {"channel", "notify"} => ~InStagnant(e.ch)
               /\ \A s \in SentTo(e.user) : e.ch \notin Named(s.report)

C16_Skipped ==
    (ChannelStep /\ NotFound(Last(run'.evals)))
        => /\ run'.fetches = run.fetches
           /\ run'.stagnant = run.stagnant
           /\ GoesOn

C16_UnresolvedSkipped == [] C16_NoFetch /\ [][C16_Skipped]_vars

\* the first channel of a user did not resolve and the second was fetched
C16_Witness ==
    /\ Len(run.evals) = 2
    /\ NotFound(run.evals[1])
    /\ ~run.evals[1].error
    /\ run.evals[2].fetched
    /\ run.fetches = 1

-----------------------------------------------------------------------------
(* C17: when a run has completed, every user whose stored watchlist holds  *)
(* a channel was sent exactly one DM in it, also when channels of the user *)
(* did not resolve or their fetch failed; no user is ever sent two.        *)

\* the stored document the run works on, user by user
Stored == IF user_data.kind = "json" THEN user_data.val ELSE <<>>
StoredChannels(i) ==
    IF "channels" \in DOMAIN Stored[i][2] THEN Stored[i][2].channels ELSE <<>>
Sends(u) == Cardinality({j \in DOMAIN run.sent : run.sent[j].user = u})

C17_OneDMPerUser ==
    /\ \A i \in DOMAIN Stored : Sends(Stored[i][1]) <= 1
    /\ run.pc = "done"
          => \A i \in DOMAIN Stored :
                StoredChannels(i) # <<>> => Sends(Stored[i][1]) = 1

\* a run completed with two users reported to, the second with no channel
\* that resolved and was fetched
C17_Witness ==
    /\ run.pc = "done"
    /\ Len(run.sent) = 2
    /\ Evals # {}
    /\ \A e \in Evals : NotFound(e) \/ FetchFailed(e)

-----------------------------------------------------------------------------
(* C18: a user whose stored entry has an empty channel list, or no         *)
(* channels key, is sent no DM in the run, and neither get_channel_id nor  *)
(* the message fetch is called for that user.                              *)

C18_NothingSent ==
    \A i \in DOMAIN Stored :
        StoredChannels(i) = <<>>
            => /\ Sends(Stored[i][1]) = 0
               /\ \A e \in Evals : e.user # Stored[i][1]

C18_Passed ==
    (run.pc = "user" /\ run.idx <= Len(run.data) /\ StoredChannels(run.idx) = <<>>)
        => /\ run'.pc = "user"
           /\ run'.idx = run.idx + 1
           /\ run'.sent = run.sent
           /\ run'.resolves = run.resolves
           /\ run'.fetches = run.fetches
           /\ run'.evals = run.evals
           /\ channel_cache' = channel_cache

C18_NoChannelsNoDM == [] C18_NothingSent /\ [][C18_Passed]_vars

\* the run passed a user without channels key and went on to report to
\* the next user
C18_Witness ==
    /\ run.pc = "done"
    /\ \E i \in DOMAIN Stored : "channels" \notin DOMAIN Stored[i][2]
    /\ Len(run.sent) = 1

C18_WitnessEmptyList ==
    /\ run.pc = "done"
    /\ \E i \in DOMAIN Stored :
          "channels" \in DOMAIN Stored[i][2] /\ Stored[i][2].channels = <<>>
    /\ Len(run.sent) = 1

-----------------------------------------------------------------------------
(* C19: the DM of a user names exactly the user's watched channels that    *)
(* resolved and whose latest message is stagnant, in watchlist order: the  *)
(* list under the warning line when there is one, the all-clear line when  *)
(* there is none.                                                          *)

StagnantEval(e) ==
    /\ e.cid # NoId
    /\ GotMessage(e)
    /\ AgeOf(LatestOf(e)) > TwoDays
    /\ RepliesOf(LatestOf(e)) = 0

StagnantOf(evals) ==
    LET found == SelectSeq(evals, StagnantEval)
    IN  [i \in DOMAIN found |-> found[i].ch]

C19_Report ==
    (run.pc = "notify")
        => LET dm == Last(run'.sent)
               expected == StagnantOf(run.evals)
           IN  /\ dm.user = RunUser
               /\ Len(run.evals) = Len(RunChannels)
               /\ \A i \in DOMAIN run.evals :
                     run.evals[i].ch = RunChannels[i] /\ run.evals[i].user = RunUser
               /\ Len(dm.report.lines) = Len(expected)
               /\ \A i \in DOMAIN expected :
                     dm.report.lines[i] = <<"- #", expected[i]>>
               /\ dm.report.kind = IF expected # <<>> THEN "warning" ELSE "all_clear"
               /\ \A c \in Named(dm.report) :
                     \E i \in DOMAIN RunChannels : RunChannels[i] = c

C19_ReportListsStagnant == [][C19_Report]_vars

\* a user who watches eng and random was warned of eng alone
C19_Witness ==
    /\ run.sent # <<>>
    /\ Last(run.sent).report.kind = "warning"
    /\ Named(Last(run.sent).report) = {"eng"}
    /\ Len(run.evals) = 2
    /\ run.evals[2].ch = "random"
    /\ GotMessage(run.evals[2])
    /\ Last(run.sent).user = run.evals[2].user

C19_WitnessAllClear ==
    /\ run.sent # <<>>
    /\ Last(run.sent).report.kind = "all_clear"
    /\ \E e \in Evals : GotMessage(e) /\ Last(run.sent).user = e.user

-----------------------------------------------------------------------------
(* C20: a failure while a user is processed (a channel lookup, a message   *)
(* fetch or the DM send fails) never ends the run: the run goes on, and    *)
(* every later user with a watched channel is evaluated and sent the DM.   *)

C20_Failure ==
    \/ ChannelStep /\ Last(run'.evals).error
    \/ ChannelStep /\ FetchFailed(Last(run'.evals))
    \/ run.pc = "notify" /\ ~Last(run'.sent).ok

C20_GoesOn == C20_Failure => run'.pc \in {"channel", "notify", "user"}

C20_AllReported ==
    run.pc \notin {"idle", "user", "channel", "notify"}
        => \A i \in DOMAIN Stored :
              StoredChannels(i) # <<>> => Sends(Stored[i][1]) = 1

C20_FailureNeverAborts == [] C20_AllReported /\ [][C20_GoesOn]_vars

-----------------------------------------------------------------------------
(* C21: every run ends in Done, having gone from Idle through the load of  *)
(* the users to the evaluation of each stored user, once and in stored     *)
(* order, whether the external calls return or fail.                       *)

\* run_check is over: it returned, or an exception left it
RunOver == run.pc \notin {"idle", "user", "channel", "notify"}

C21_InSequence ==
    (run.pc \in {"user", "channel", "notify"} /\ run'.idx # run.idx)
        => run'.idx = run.idx + 1

C21_Done ==
    RunOver => /\ run.pc = "done"
               /\ run.idx = IF Stored = <<>> THEN 0 ELSE Len(Stored) + 1

C21_RunEndsInDone == [] C21_Done /\ [][C21_InSequence]_vars


-----------------------------------------------------------------------------
(* SpecFile: processes that read, write and update the cache file, their   *)
(* system calls interleaved                                                *)

\* the documents the writers save: two full refreshes, one of them with a
\* fallback add
SaveDocs ==
    { [channels |-> ("eng" :> "C1"), last_updated |-> isoformat(1)],
      with_mapping([channels |-> ("eng" :> "C1"), last_updated |-> isoformat(2)],
                   "ops", "C2") }

\* the document of a file that is there when the processes start
StartDoc == [channels |-> ("random" :> "C0"), last_updated |-> isoformat(0)]

Ops == {"load", "save", "update"}

InitFile ==
    /\ InitWatchIdle
    /\ InitCacheIdle
    /\ run = NoRun
    /\ r = TRUE
    /\ file \in {Missing, File(TRUE, json_dumps(StartDoc), {StartDoc})}
    /\ procs = [p \in Procs |-> NoProc]
    /\ observed = NoneObserved

\* a process calls load_channel_cache(), save_channel_cache(doc) or
\* atomic_json_update(CHANNEL_CACHE_FILE, update_func, default)
Start(p, op, doc) ==
    /\ procs[p].pc = "idle"
    /\ procs' = [procs EXCEPT ![p] = Proc(op, "exists", doc, p, DefaultCache)]
    /\ UNCHANGED <<file, r, run, observed>>
    /\ UNCHANGED <<watchVars, cacheVars>>
\* os.path.exists(filename)
Exists(p) ==
    /\ procs[p].pc = "exists"
    /\ procs' = [procs EXCEPT ![p].pc = after_exists(procs[p].op, file.exists)]
    /\ UNCHANGED <<file, r, run, observed>>
    /\ UNCHANGED <<watchVars, cacheVars>>
\* open(filename, "w")
Create(p) ==
    /\ procs[p].pc = "create"
    /\ file' = open_w(file)
    /\ procs' = [procs EXCEPT ![p].pc = "placeholder"]
    /\ UNCHANGED <<r, run, observed>>
    /\ UNCHANGED <<watchVars, cacheVars>>
\* json.dump({}, f) or json.dump(default, f), and the file is closed
Placeholder(p) ==
    /\ procs[p].pc = "placeholder"
    /\ file' = dump_placeholder(file, procs[p].op, DefaultCache)
    /\ procs' = [procs EXCEPT ![p].pc = "lock"]
    /\ UNCHANGED <<r, run, observed>>
    /\ UNCHANGED <<watchVars, cacheVars>>
\* fcntl.flock(f.fileno(), LOCK_SH or LOCK_EX) returns
Lock(p) ==
    /\ procs[p].pc = "lock"
    /\ \A q \in Procs \ {p} : ~holds_ex(procs[q])
    /\ procs[p].op # "load" => \A q \in Procs \ {p} : ~holds_sh(procs[q])
    /\ procs' = [procs EXCEPT ![p].pc = after_lock(procs[p].op)]
    /\ UNCHANGED <<file, r, run, observed>>
    /\ UNCHANGED <<watchVars, cacheVars>>
\* json.load(f)
Read(p) ==
    /\ procs[p].pc = "read"
    /\ procs' = [procs EXCEPT ![p].data = json_load(file.text, DefaultCache),
                              ![p].pc = after_read(procs[p].op)]
    /\ UNCHANGED <<file, r, run, observed>>
    /\ UNCHANGED <<watchVars, cacheVars>>
\* f.seek(0); f.truncate()
Truncate(p) ==
    /\ procs[p].pc = "truncate"
    /\ file' = truncate(file)
    /\ procs' = [procs EXCEPT ![p].pc = "dump"]
    /\ UNCHANGED <<r, run, observed>>
    /\ UNCHANGED <<watchVars, cacheVars>>
\* json.dump(data, f, indent=2); f.flush(); os.fsync(f.fileno())
Dump(p) ==
    /\ procs[p].pc = "dump"
    /\ file' = dump(file, IF procs[p].op = "save" THEN procs[p].doc
                          ELSE update_func(procs[p].data, procs[p].name))
    /\ procs' = [procs EXCEPT ![p].pc = "unlock"]
    /\ UNCHANGED <<r, run, observed>>
    /\ UNCHANGED <<watchVars, cacheVars>>
\* fcntl.flock(f.fileno(), LOCK_UN), and the function returns
Unlock(p) ==
    /\ procs[p].pc = "unlock"
    /\ procs' = [procs EXCEPT ![p].pc = "done"]
    /\ UNCHANGED <<file, r, run, observed>>
    /\ UNCHANGED <<watchVars, cacheVars>>
NextFile ==
    \/ \E p \in Procs, op \in Ops, doc \in SaveDocs : Start(p, op, doc)
    \/ \E p \in Procs : Exists(p)
    \/ \E p \in Procs : Create(p)
    \/ \E p \in Procs : Placeholder(p)
    \/ \E p \in Procs : Lock(p)
    \/ \E p \in Procs : Read(p)
    \/ \E p \in Procs : Truncate(p)
    \/ \E p \in Procs : Dump(p)
    \/ \E p \in Procs : Unlock(p)

SpecFile == InitFile /\ [][NextFile]_vars

\* what the claims about the file speak of
Loaded(p) == procs[p].op = "load" /\ procs[p].pc = "done"
Updaters == {p \in Procs : procs[p].op = "update"}
AllUpdated == Updaters = Procs /\ \A p \in Procs : procs[p].pc = "done"
WellFormedCache(data) == DOMAIN data = {"channels", "last_updated"}

-----------------------------------------------------------------------------
(* C25: under any interleaving of refreshes, fallback adds and reads by    *)
(* different processes, every read of the cache yields a complete cache    *)
(* document that some writer wrote, or the default                         *)
(* {channels: {}, last_updated: null}; never a partly written or mixed     *)
(* document.                                                               *)

C25_ReadsWholeDocument ==
    \A p \in Procs :
        Loaded(p) => \/ procs[p].data = DefaultCache
                     \/ /\ WellFormedCache(procs[p].data)
                        /\ procs[p].data \in file.wrote

-----------------------------------------------------------------------------
(* C26: atomic_json_update makes the read-modify-write atomic: when        *)
(* several processes call it at once on one file, also when the file is    *)
(* not there yet, the file ends up holding every process's update.         *)

\* the channels of the document the processes started from
StartChannels ==
    IF StartDoc \in file.wrote THEN DOMAIN StartDoc.channels ELSE {}

C26_NoUpdateLost ==
    AllUpdated => /\ file.text.kind = "json"
                  /\ DOMAIN file.text.val.channels = StartChannels \cup Procs


-----------------------------------------------------------------------------
(* SpecStore: the commands served by any of the modules, by a process with *)
(* or without a connection, over a store whose reads and writes may fail   *)
(* and whose value may be unparsable, and payloads that may lack user_id   *)

\* a valid name, a name only the unvalidated handlers take, no '#'
StoreTexts ==
    { Hash(ActiveName(1)), <<"#", "C", " ", "!">>, ActiveName(1) }

StoreDocs ==
    {Absent, Unparsable, json_dumps(EmptyDict)} \cup
    {json_dumps(<<<<"U1", [channels |-> FillList(MaxChannels - h)]>>>>) :
        h \in {0, 1}}

Served(name, handler, has_user, user_id, text) ==
    [name |-> name, user_id |-> user_id, text |-> text,
     handler |-> handler, has_user |-> has_user]

InitStore ==
    /\ user_data \in StoreDocs
    /\ cmd = NoCmd
    /\ trace = <<>>
    /\ InitCacheIdle
    /\ run = NoRun
    /\ r \in BOOLEAN
    /\ file = Missing
    /\ procs = [p \in Procs |-> NoProc]
    /\ observed = NoneObserved

\* save_data(load_data()) of src/slack_bot.py
RoundTrip(getOk, setOk) ==
    LET saved == save_data(r, user_data, load_data(r, user_data, getOk), setOk)
    IN  /\ cmd = NoCmd
        /\ cmd' = Served("roundtrip", "slack_bot", TRUE, "", <<>>)
        /\ user_data' = saved.raw
        /\ trace' = load_events(r, getOk) \o save_events(r, setOk)
        /\ UNCHANGED <<run, file, procs, r, observed>>
        /\ UNCHANGED cacheVars
ServeWatch(handler, has_user, user_id, text, getOk, setOk) ==
    LET res == serve_watch(handler, user_data, r, has_user, user_id, text, getOk, setOk)
    IN  /\ cmd = NoCmd
        /\ cmd' = Served("watch", handler, has_user, user_id, text)
        /\ user_data' = res.raw
        /\ trace' = res.trace
        /\ UNCHANGED <<run, file, procs, r, observed>>
        /\ UNCHANGED cacheVars
ServeUnwatch(handler, has_user, user_id, text, getOk, setOk) ==
    LET res == serve_unwatch(handler, user_data, r, has_user, user_id, text, getOk, setOk)
    IN  /\ cmd = NoCmd
        /\ cmd' = Served("unwatch", handler, has_user, user_id, text)
        /\ user_data' = res.raw
        /\ trace' = res.trace
        /\ UNCHANGED <<run, file, procs, r, observed>>
        /\ UNCHANGED cacheVars
ServeList(handler, has_user, user_id, getOk) ==
    LET res == serve_list(handler, user_data, r, has_user, user_id, getOk)
    IN  /\ cmd = NoCmd
        /\ cmd' = Served("list", handler, has_user, user_id, <<>>)
        /\ user_data' = res.raw
        /\ trace' = res.trace
        /\ UNCHANGED <<run, file, procs, r, observed>>
        /\ UNCHANGED cacheVars
\* the handler has returned or raised: the next command can be served
ServeReturn ==
    /\ cmd # NoCmd
    /\ cmd' = NoCmd
    /\ trace' = <<>>
    /\ UNCHANGED user_data
    /\ UNCHANGED <<run, file, procs, r, observed>>
    /\ UNCHANGED cacheVars
NextStore ==
    \/ \E getOk \in BOOLEAN, setOk \in BOOLEAN : RoundTrip(getOk, setOk)
    \/ \E h \in Handlers, has_user \in BOOLEAN, u \in Users, t \in StoreTexts,
          getOk \in BOOLEAN, setOk \in BOOLEAN :
            ServeWatch(h, has_user, u, t, getOk, setOk)
    \/ \E h \in Handlers, has_user \in BOOLEAN, u \in Users, t \in StoreTexts,
          getOk \in BOOLEAN, setOk \in BOOLEAN :
            ServeUnwatch(h, has_user, u, t, getOk, setOk)
    \/ \E h \in Handlers, has_user \in BOOLEAN, u \in Users, getOk \in BOOLEAN :
            ServeList(h, has_user, u, getOk)
    \/ ServeReturn

SpecStore == InitStore /\ [][NextStore]_vars

\* what the claims about the served commands speak of
Serving == cmd # NoCmd /\ cmd.name \in {"watch", "unwatch", "list"}
Acks == {i \in DOMAIN trace : trace[i].e = "ack"}
Escaped == \E i \in DOMAIN trace : trace[i].e = "raise"
FailedStep == \E i \in DOMAIN trace : trace[i].e = "field" /\ ~trace[i].ok
Failures ==
    Cardinality({i \in DOMAIN trace :
        trace[i].e = "respond" /\ trace[i].msg.kind \in {"unexpected", "error"}})
StoredUsers ==
    IF user_data.kind = "json" THEN {user_data.val[i][1] : i \in DOMAIN user_data.val}
    ELSE {}

-----------------------------------------------------------------------------
(* C22: save_data(load_data()) leaves the stored user_data document as it  *)
(* was, whatever the store holds: a valid document, no key, an unparsable  *)
(* value, or no store at all.                                              *)

C22_RoundTripIsNoOp ==
    [][cmd'.name = "roundtrip" => user_data' = user_data]_vars

-----------------------------------------------------------------------------
(* C23: every /watch, /unwatch and /list acknowledges the command before   *)
(* any other step - before a field of the payload is read, before the      *)
(* store is read or written, before any response - and on every path,      *)
(* also those that fail later.                                             *)

C23_AckFirst ==
    Serving => /\ trace # <<>>
               /\ trace[1].e = "ack"
               /\ Cardinality(Acks) = 1

-----------------------------------------------------------------------------
(* C24: an unexpected error raised while a handler is processing is caught *)
(* by the handler and turned into one failure response to the user; it     *)
(* does not leave the handler.                                             *)

C24_ErrorsCaught ==
    Serving => /\ ~Escaped
               /\ FailedStep => Failures = 1

-----------------------------------------------------------------------------
(* C28: whatever /watch and /unwatch commands the handlers of the key      *)
(* user_data have served, every stored watchlist has no name twice, at     *)
(* most 50 names, and only names that match [a-z0-9\-_]{1,80}.             *)

C28_WatchlistsWellFormed ==
    \A u \in StoredUsers :
        /\ \A n \in Range(Watchlist(u)) : Count(n, Watchlist(u)) = 1
        /\ Len(Watchlist(u)) <= MaxChannels
        /\ \A n \in Range(Watchlist(u)) : MatchesGrammar(n)

-----------------------------------------------------------------------------
(* C27: a full refresh follows the pagination until next_cursor is empty:  *)
(* the mapping it stores holds every channel of every page, not only of    *)
(* the first, and the listing loop ends with the page whose next_cursor is *)
(* empty.                                                                  *)

Refreshed == Called /\ call.path = "refresh" /\ ~call.error

C27_FollowsPagination ==
    Refreshed =>
        /\ \A k \in DOMAIN platform : \A i \in DOMAIN platform[k] :
              /\ platform[k][i].name \in DOMAIN Entries(channel_cache)
              /\ Entries(channel_cache)[platform[k][i].name] = platform[k][i].id
        /\ DOMAIN Entries(channel_cache) = {c.name : c \in Listed(platform)}
        /\ call.calls = Len(platform)

\* a refresh over two pages stored a channel that only the second page lists
C27_Witness ==
    /\ Refreshed
    /\ Len(platform) = 2
    /\ \E i \in DOMAIN platform[2] :
          /\ \A j \in DOMAIN platform[1] : platform[1][j].name # platform[2][i].name
          /\ platform[2][i].name \in DOMAIN Entries(channel_cache)
    /\ call.calls = 2

-----------------------------------------------------------------------------
(* C30: while the stored cache is valid, no get_channel_id call, hit or    *)
(* miss, makes a full refresh or changes last_updated; last_updated is set *)
(* by full refreshes alone, so the cache stops being valid 24h after the   *)
(* last full refresh however many names the fallback added.                *)

\* last_updated of the stored cache in hours, -1 when it has none
LastUpdated(raw) == IF NeverUpdated(raw) THEN -1 ELSE UpdatedAt(raw)

C30_ValidNoRefresh ==
    (Called' /\ StoredValid(channel_cache, now))
        => /\ call'.path \in {"hit", "lookup"}
           /\ LastUpdated(channel_cache') = LastUpdated(channel_cache)
           /\ StoredValid(channel_cache', now)

C30_OnlyRefreshStamps ==
    LastUpdated(channel_cache') # LastUpdated(channel_cache)
        => /\ Called'
           /\ call'.path = "refresh"
           /\ ~StoredValid(channel_cache, now)
           /\ LastUpdated(channel_cache') = now

C30_FallbackKeepsExpiry == [][C30_ValidNoRefresh /\ C30_OnlyRefreshStamps]_vars

\* a second name was added by the fallback, hours after the refresh, and
\* last_updated is still the hour of the refresh
C30_Witness ==
    /\ Called
    /\ call.valid
    /\ call.path = "lookup"
    /\ call.writes = 1
    /\ Cardinality(DOMAIN Entries(channel_cache)) >= 3
    /\ now - LastUpdated(channel_cache) = 23

-----------------------------------------------------------------------------
(* C29: the stagnant names in a user's report are in the order they have   *)
(* in that user's stored watchlist, and none is there twice.               *)

\* the stored watchlist of a user
WatchlistOf(u) ==
    LET i == CHOOSE j \in DOMAIN Stored : Stored[j][1] = u
    IN  StoredChannels(i)

\* the names a report lists, top to bottom
NamesOf(report) == [i \in DOMAIN report.lines |-> report.lines[i][2]]

C29_ReportInWatchlistOrder ==
    \A k \in DOMAIN run.sent :
        LET names == NamesOf(run.sent[k].report)
            listed(c) == \E i \in DOMAIN names : names[i] = c
        IN  /\ names = SelectSeq(WatchlistOf(run.sent[k].user), listed)
            /\ \A i, j \in DOMAIN names : names[i] = names[j] => i = j

\* a user who watches ops before eng was warned of ops, then eng
C29_Witness ==
    /\ run.sent # <<>>
    /\ NamesOf(Last(run.sent).report) = <<"ops", "eng">>
    /\ WatchlistOf(Last(run.sent).user) = <<"ops", "eng">>

-----------------------------------------------------------------------------
(* The resolver with a record of what its listings showed: the same calls, *)
(* and beside them, for every name, the ID and the hour of the listing     *)
(* that last put the name into the stored cache.                           *)

\* the clock's steps here: two of them reach hours 23 and 24 after a refresh
StaleHours == {11, 12}

Resolve(channel_name, failAt, exc) ==
    /\ GetChannelIdCall(channel_name, failAt, exc)
    /\ observed' = observe(observed, call'.path, call'.writes, platform,
                           channel_name, now)

NextStale ==
    \/ \E n \in QueryNames, failAt \in 0..2, exc \in Raises :
          Resolve(n, failAt, exc)
    \/ CallReturn
    \/ \E d \in StaleHours : Tick(d)
    \/ \E pages \in Listings : ChangePlatform(pages)

SpecStale == InitCache /\ [][NextStale]_vars

-----------------------------------------------------------------------------
(* C31: staleness is bounded to 24h: whenever get_channel_id returns an ID *)
(* without calling the platform, a listing showed that name with that ID   *)
(* less than 24 hours earlier, whatever refreshes and fallback adds went   *)
(* before.                                                                 *)

CacheHit == Called /\ call.calls = 0 /\ call.ret # NoId

C31_StalenessBounded ==
    CacheHit => /\ call.name \in DOMAIN observed
                /\ observed[call.name].id = call.ret
                /\ now - observed[call.name].at < CacheExpiryHours

\* a hit on a name the fallback added, 23 hours after the refresh, returns
\* an ID the platform no longer lists
C31_Witness ==
    /\ CacheHit
    /\ now - LastUpdated(channel_cache) = 23
    /\ now - observed[call.name].at < 23
    /\ ~IsListed(platform, call.name) \/ ListedId(platform, call.name) # call.ret

-----------------------------------------------------------------------------
(* C32: no resolver returns an ID read from a cache whose last_updated is  *)
(* absent or at least 24 hours old: with such a cache an ID returned by    *)
(* get_channel_id is the one the fresh listing gives the name, and         *)
(* get_cached_channel_id returns None even when the cache holds the name.  *)

CalledCached == call.op = "get_cached_channel_id"

C32_NoIdFromInvalidCache ==
    [][ /\ (Called' /\ ~StoredValid(channel_cache, now) /\ call'.ret # NoId)
            => /\ call'.path = "refresh"
               /\ call'.calls >= 1
               /\ IsListed(platform, call'.name)
               /\ call'.ret = ListedId(platform, call'.name)
        /\ (CalledCached' /\ ~StoredValid(channel_cache, now))
            => call'.ret = NoId ]_vars

\* the expired cache holds the name get_cached_channel_id was asked for
C32_Witness ==
    /\ CalledCached
    /\ ~NeverUpdated(channel_cache)
    /\ now - UpdatedAt(channel_cache) >= CacheExpiryHours
    /\ call.name \in DOMAIN Entries(channel_cache)
    /\ call.ret = NoId

-----------------------------------------------------------------------------
(* C33: when the listing fails during a full refresh, at whichever page,   *)
(* nothing is written: the stored cache document, last_updated included,   *)
(* is what it was before the call, so the cache stays invalid, and a       *)
(* get_channel_id that finds it invalid calls the platform for a refresh   *)
(* again.                                                                  *)

RefreshFailed == Called /\ call.path = "refresh" /\ call.error

C33_FailedRefreshWritesNothing ==
    [][ /\ RefreshFailed'
            => /\ channel_cache' = channel_cache
               /\ call'.writes = 0
               /\ ~StoredValid(channel_cache', now')
               /\ call'.ret = NoId
        /\ (Called' /\ ~StoredValid(channel_cache, now))
            => /\ call'.path = "refresh"
               /\ call'.calls >= 1 ]_vars

\* the listing failed at its second page, over an expired cache with entries
C33_Witness ==
    /\ RefreshFailed
    /\ call.calls = 2
    /\ ~NeverUpdated(channel_cache)
    /\ DOMAIN Entries(channel_cache) # {}

-----------------------------------------------------------------------------
(* C34: in a run of run_check that starts with an invalid cache and in     *)
(* which no listing call fails, exactly one full refresh is performed,     *)
(* however many users and channels the run resolves: the first resolve of  *)
(* the run refreshes, and every later one is served from the cache or by   *)
(* the single-name fallback.                                               *)

Resolved == run'.resolves = run.resolves + 1
LastEval == run.evals[Len(run.evals)]

C34_OneRefreshPerRun ==
    [][ (Resolved /\ run'.cold /\ ~run'.failed)
            => /\ run'.refreshes = 1
               /\ (run.resolves = 0) => LastEval'.path = "refresh"
               /\ (run.resolves >= 1) => LastEval'.path \in {"hit", "lookup"} ]_vars

\* a run over two users and three channels that began with an invalid cache
C34_Witness ==
    /\ run.pc = "done"
    /\ run.cold
    /\ ~run.failed
    /\ run.resolves = 3
    /\ run.refreshes = 1
    /\ Len(run.sent) = 2

-----------------------------------------------------------------------------
(* C35: a /watch served by src/slack_bot.py never removes a channel from   *)
(* any user's stored watchlist and never deletes another user's entry,     *)
(* whatever becomes of its store read and of its store write, a read that  *)
(* fails and is taken for an empty document included.                      *)

Elems(s) == {s[i] : i \in DOMAIN s}

C35_WatchRemovesNothing ==
    [][ (cmd'.name = "watch" /\ cmd'.handler = "slack_bot")
            => \A u \in Users :
                  /\ HasEntry(u) => HasEntryIn(user_data', u)
                  /\ Elems(Watchlist(u)) \subseteq Elems(WatchlistIn(user_data', u)) ]_vars

-----------------------------------------------------------------------------
(* C38: a successful /unwatch removes exactly the requested name from the  *)
(* requesting user's watchlist: the user's other names keep their order,   *)
(* every other user's watchlist is unchanged, and a /list that follows no  *)
(* longer shows the name.                                                  *)

C38_Removed ==
    (cmd'.name = "unwatch" /\ LastMsg'.kind = "removed")
        => LET u == cmd'.user_id
               n == NameOf(cmd'.text)
               others(c) == c # n
           IN  /\ LastMsg'.name = n
               /\ Count(n, Watchlist(u)) = 1
               /\ WatchlistIn(user_data', u) = SelectSeq(Watchlist(u), others)
               /\ Len(WatchlistIn(user_data', u)) = Len(Watchlist(u)) - 1
               /\ \A v \in Users \ {u} :
                     /\ HasEntryIn(user_data', v) = HasEntry(v)
                     /\ WatchlistIn(user_data', v) = Watchlist(v)
               /\ Count(n, Listing(user_data', u).channels) = 0

C38_UnwatchRemovesExactlyOne == [][C38_Removed]_vars

\* the first of the user's names was removed, another of them stays, and
\* another user watches names too
C38_Witness ==
    /\ cmd.name = "unwatch"
    /\ LastMsg.kind = "removed"
    /\ Watchlist(cmd.user_id) # <<>>
    /\ \E v \in Users \ {cmd.user_id} : Len(Watchlist(v)) >= 2

-----------------------------------------------------------------------------
(* SpecRace: two processes over the one store. A /watch reads the          *)
(* user_data document with one command of the store and writes it back     *)
(* with another; get_channel_id reads the cache, lists the channels and    *)
(* writes the cache back. Between the read and the write of one process    *)
(* the other process runs and the clock moves.                             *)

RaceProcs == {"p1", "p2"}
RaceTexts == {Hash(ActiveName(1)), Hash(ActiveName(2))}
RaceNames == {"eng", "ops"}

\* the hour at which the first process starts
RaceStart == CacheExpiryHours - 1

\* what a process has read and when, and the response it ended with
Racer(op, pc, user, arg, loaded, at, msg) ==
    [op |-> op, pc |-> pc, user |-> user, arg |-> arg, loaded |-> loaded,
     at |-> at, msg |-> msg]

InitRace ==
    /\ user_data \in {Absent,
                      json_dumps(<<<<"U1", [channels |-> <<ActiveName(2)>>]>>>>)}
    /\ cmd = NoCmd
    /\ trace = <<>>
    /\ channel_cache \in
          {Absent,
           json_dumps([channels |-> ("eng" :> "C1"), last_updated |-> isoformat(0)])}
    /\ now = RaceStart
    /\ platform = << <<Chan("eng", "C1"), Chan("ops", "C3")>> >>
    /\ USE_REDIS \in BOOLEAN
    /\ call = NoCall
    /\ InitRunIdle
    /\ InitFileIdle

\* cmd_watch up to "data = load_data()": r.get(DATA_KEY)
WatchLoad(p, user_id, text) ==
    /\ procs[p] = NoProc
    /\ procs' = [procs EXCEPT
                   ![p] = Racer("watch", "loaded", user_id, text, user_data,
                                now, NoMsg)]
    /\ UNCHANGED <<user_data, cmd, trace, run, r, file, observed>>
    /\ UNCHANGED cacheVars

\* the rest of cmd_watch, on the document it loaded: the tests, the append,
\* save_data(data) with r.set(DATA_KEY, json.dumps(data)), the response
WatchSave(p, setOk) ==
    LET res == cmd_watch(procs[p].loaded, TRUE, procs[p].user, procs[p].arg,
                         TRUE, setOk)
        responses == SelectSeq(res.trace, LAMBDA ev : ev.e = "respond")
    IN  /\ procs[p].op = "watch"
        /\ procs[p].pc = "loaded"
        /\ setOk \/ sets(res.trace)
        /\ user_data' = IF sets(res.trace) /\ setOk THEN res.raw ELSE user_data
        /\ procs' = [procs EXCEPT
                       ![p].pc = "done",
                       ![p].msg = responses[Len(responses)].msg]
        /\ UNCHANGED <<cmd, trace, run, r, file, observed>>
        /\ UNCHANGED cacheVars

\* get_channel_id up to "cache = load_cache()" and the test of its validity
ResolveLoad(p, channel_name) ==
    /\ procs[p] = NoProc
    /\ procs' = [procs EXCEPT
                   ![p] = Racer("resolve", "loaded", "", channel_name,
                                channel_cache, now, NoMsg)]
    /\ UNCHANGED <<user_data, cmd, trace, run, r, file, observed>>
    /\ UNCHANGED cacheVars

\* the rest of get_channel_id, on the cache it loaded and judged at hour
\* "at": the hit; or the refresh, which lists and saves with the hour of the
\* save; or the single lookup, which saves the loaded cache with one name
\* added
ResolveWrite(p) ==
    LET res == get_channel_id(USE_REDIS, procs[p].loaded, procs[p].at,
                              platform, procs[p].arg, 0, "SlackApiError")
        refreshed == IF USE_REDIS
                     THEN refresh_cache_redis(procs[p].loaded, now, platform, 0)
                     ELSE refresh_full_cache(procs[p].loaded, now, platform, 0)
        written == IF res.path = "refresh" THEN refreshed.raw ELSE res.raw
    IN  /\ procs[p].op = "resolve"
        /\ procs[p].pc = "loaded"
        /\ channel_cache' = IF res.writes = 1 THEN written ELSE channel_cache
        /\ procs' = [procs EXCEPT ![p].pc = "done"]
        /\ UNCHANGED <<now, platform, USE_REDIS, call>>
        /\ UNCHANGED <<user_data, cmd, trace, run, r, file, observed>>

NextRace ==
    \/ \E p \in RaceProcs, u \in Users, t \in RaceTexts : WatchLoad(p, u, t)
    \/ \E p \in RaceProcs, setOk \in BOOLEAN : WatchSave(p, setOk)
    \/ \E p \in RaceProcs, n \in RaceNames : ResolveLoad(p, n)
    \/ \E p \in RaceProcs : ResolveWrite(p)
    \/ Tick(1)

SpecRace == InitRace /\ [][NextRace]_vars

\* the process has served a /watch and answered with the confirmation
Confirmed(p) ==
    /\ procs[p].op = "watch"
    /\ procs[p].pc = "done"
    /\ procs[p].msg.kind = "added"

-----------------------------------------------------------------------------
(* C36: when two /watch commands of different users run at the same time   *)
(* in different processes and both are answered with the confirmation,     *)
(* both names are in the stored user_data document once both commands      *)
(* have completed.                                                         *)

C36_BothAddsStored ==
    \A p, q \in RaceProcs :
        (p # q /\ Confirmed(p) /\ Confirmed(q) /\ procs[p].user # procs[q].user)
            => /\ in_list(NameOf(procs[p].arg), Watchlist(procs[p].user))
               /\ in_list(NameOf(procs[q].arg), Watchlist(procs[q].user))

-----------------------------------------------------------------------------
(* C37: the last_updated of the stored cache never decreases, however a    *)
(* full refresh in one process interleaves with the load, the listing and  *)
(* the write-back of a single-name fallback add in another.                *)

C37_LastUpdatedMonotonic ==
    [][LastUpdated(channel_cache') >= LastUpdated(channel_cache)]_vars

=============================================================================
